---- MODULE Spec2Model ----
(***************************************************************************)
(* State-machine model of the Soltrivia on-chain programs:                 *)
(*   reward_distributor  (triviacomb-contracts/programs/reward_distributor)*)
(*   question_bank       (programs/question_bank)                          *)
(*   tournament_manager  (programs/tournament_manager)                     *)
(* Every instruction handler is an operator that returns the outcome of    *)
(* one transaction: the error code ("Ok" on success) and the account       *)
(* contents that are persisted.  An action applies one handler.            *)
(***************************************************************************)
EXTENDS Integers, Sequences, FiniteSets, Bags, TLC

VARIABLES
    \* ---- reward_distributor ----
    pools,            \* pool id -> RewardPool account (domain = created pools)
    claims,           \* <<pool id, user>> -> UserClaim account
    vault,            \* pool id -> balance held by the pool's RewardVault
    wallet,           \* user -> asset ("SOL", "SplToken") -> balance the user holds
    now,              \* Clock::get()?.unix_timestamp
    overflow_checks,  \* build profile: TRUE = arithmetic overflow panics
    \* ---- question_bank ----
    question_bank,    \* the QuestionBank singleton
    questions,        \* sequence of Question accounts, question id = index - 1
    reputations,      \* user -> UserReputation account (domain = created)
    \* ---- runtime ----
    inflight,         \* transaction id -> a transaction that has been issued
                      \* and is executed instruction step by instruction step
    \* ---- tournament_manager ----
    tournament_manager, \* the TournamentManagerState singleton
    tournaments,      \* sequence of Tournament accounts, tournament id = index - 1
    registrations,    \* <<tournament id, participant>> -> Registration account
    token_accounts    \* token account -> balance of the entry-fee token

vars == <<pools, claims, vault, wallet, now, overflow_checks,
          question_bank, questions, reputations, inflight,
          tournament_manager, tournaments, registrations, token_accounts>>

----------------------------------------------------------------------------
\* Bounds of the model

\* identities (public keys) are 1..NumUsers
NumUsers == 2
\* the clock runs from 0 to MaxTime
MaxTime == 3
\* the unsigned 64-bit word is modelled with U64_BITS bits
U64_BITS == 12
\* what every user holds of each asset before the first transaction
InitialBalance == 1000

\* the community of the question bank is 1..NumMembers
NumMembers == 6
\* at most MaxQuestions questions are submitted
MaxQuestions == 1
\* update_reputation is tried while the score is at most MaxScore
MaxScore == 150

Users == 1..NumUsers
Members == 1..NumMembers
PoolIds == {1}
U64_MOD == 2^U64_BITS
U64_MAX == U64_MOD - 1

\* u64 arithmetic: a result outside 0..U64_MAX panics when the build has
\* overflow-checks and wraps modulo 2^w otherwise
InU64(x) == x >= 0 /\ x <= U64_MAX
Wrap(x) == x % U64_MOD
Min(a, b) == IF a < b THEN a ELSE b
Max(a, b) == IF a > b THEN a ELSE b

----------------------------------------------------------------------------
\* reward_distributor: data

RewardTypes == {"SOL", "SplToken", "NFT"}
DistributionTypes == {"EqualShare", "PerformanceBased", "StakingRewards",
                      "AchievementBased", "RandomDrop"}

\* The outcome of one reward_distributor transaction
RdOutcome(e, ps, cs, vs, ws, r) ==
    [err |-> e, pools |-> ps, claims |-> cs, vault |-> vs, wallet |-> ws, ret |-> r]
\* A failed transaction persists nothing
RdFail(e) == RdOutcome(e, pools, claims, vault, wallet, 0)

PerformanceData_validate(pd) ==
    /\ pd.score <= 100
    /\ pd.completion_time >= 0
    /\ pd.staking_duration >= 0
    /\ pd.achievements_unlocked <= 1000

\* The distribution formulas return [ok, value]: ok is FALSE when the
\* arithmetic panics (overflow-checks build)
Arith(raw) ==
    [ok |-> InU64(raw) \/ ~overflow_checks, value |-> Wrap(raw)]

performance_multiplier(score) ==
    IF score <= 50 THEN 1
    ELSE IF score <= 75 THEN 2
    ELSE IF score <= 90 THEN 3
    ELSE IF score <= 99 THEN 4
    ELSE IF score = 100 THEN 5
    ELSE 1

time_bonus(completion_time) ==
    IF completion_time > 0
    THEN Max(1, 120 - (completion_time \div 60))
    ELSE 1

\* A variant of calculate_performance_rewards that divides once, at the end
calculate_performance_rewards_divide_last(total_rewards, pd) ==
    LET product == total_rewards * performance_multiplier(pd.score)
                       * time_bonus(pd.completion_time)
        max_reward == total_rewards \div 10
    IN  [ok |-> TRUE, value |-> Min(product \div 100000, max_reward)]

calculate_performance_rewards(total_rewards, pd) ==
    LET base_reward == total_rewards \div 1000
        m1 == Arith(base_reward * performance_multiplier(pd.score))
        m2 == Arith(m1.value * time_bonus(pd.completion_time))
        calculated_reward == m2.value \div 100
        max_reward == total_rewards \div 10
    IN  [ok |-> m1.ok /\ m2.ok, value |-> Min(calculated_reward, max_reward)]

calculate_staking_rewards(total_rewards, pd) ==
    LET base_reward == total_rewards \div 365
        staking_days == pd.staking_duration \div (24 * 60 * 60)
        m == Arith(base_reward * staking_days)
        max_reward == total_rewards \div 10
    IN  [ok |-> m.ok, value |-> Min(m.value, max_reward)]

calculate_achievement_rewards(total_rewards, pd) ==
    LET base_reward == total_rewards \div 100
        m == Arith(base_reward * pd.achievements_unlocked)
        max_reward == total_rewards \div 5
    IN  [ok |-> m.ok, value |-> Min(m.value, max_reward)]

calculate_random_rewards(total_rewards, pd) ==
    LET random_value == pd.random_seed % 100
    IN  [ok |-> TRUE,
         value |-> IF random_value < 10 THEN total_rewards \div 50 ELSE 0]

calculated_reward(pool, pd) ==
    CASE pool.distribution_criteria = "EqualShare" ->
            [ok |-> TRUE, value |-> pool.total_rewards \div 100]
      [] pool.distribution_criteria = "PerformanceBased" ->
            calculate_performance_rewards(pool.total_rewards, pd)
      [] pool.distribution_criteria = "StakingRewards" ->
            calculate_staking_rewards(pool.total_rewards, pd)
      [] pool.distribution_criteria = "AchievementBased" ->
            calculate_achievement_rewards(pool.total_rewards, pd)
      [] pool.distribution_criteria = "RandomDrop" ->
            calculate_random_rewards(pool.total_rewards, pd)

\* Value transfer capability: moves amount from one holding to another and
\* fails (nothing moved) when the source holds less than amount
CanTransfer(balance, amount) == balance >= amount

----------------------------------------------------------------------------
\* reward_distributor: instruction handlers

Credit(ws, u, asset, amount) == [ws EXCEPT ![u][asset] = @ + amount]
Debit(ws, u, asset, amount) == [ws EXCEPT ![u][asset] = @ - amount]

\* The RewardPool account written by create_reward_pool
NewPool(authority, pool_data) ==
    [id |-> pool_data.id,
     authority |-> authority,
     total_rewards |-> pool_data.total_rewards,
     distributed_rewards |-> 0,
     reward_type |-> pool_data.reward_type,
     token_mint |-> pool_data.token_mint,
     distribution_criteria |-> pool_data.distribution_criteria,
     start_time |-> pool_data.start_time,
     end_time |-> pool_data.end_time,
     active |-> TRUE]

\* A variant of nft_initial_funding that creates the pool and moves nothing
nft_initial_funding_silent(created, vault0) ==
    RdOutcome("Ok", created, claims, vault0, wallet, 0)
\* RewardType::NFT => require!(initial_funding == 0, NFTFundingUnsupported),
\* reached with initial_funding > 0
nft_initial_funding(created, vault0) == RdFail("NFTFundingUnsupported")

\* A variant of pool_account_is_new that accepts an id already in use
pool_account_is_any(pool_id) == TRUE
\* #[account(init, ..., seeds = [b"pool", &pool_data.id.to_le_bytes()], bump)]
pool_account_is_new(pool_id) == pool_id \notin DOMAIN pools

create_reward_pool(authority, pool_data, initial_funding) ==
    LET id == pool_data.id
        created == id :> NewPool(authority, pool_data) @@ pools
        vault0 == id :> 0 @@ vault
    IN
    IF ~pool_account_is_new(id) THEN RdFail("AccountAlreadyInUse")
    ELSE IF ~(pool_data.name_len <= 50) THEN RdFail("InvalidPoolName")
    ELSE IF ~(pool_data.start_time > now) THEN RdFail("InvalidStartTime")
    ELSE IF ~(pool_data.end_time > pool_data.start_time) THEN RdFail("InvalidEndTime")
    ELSE IF ~(pool_data.total_rewards > 0) THEN RdFail("InvalidRewardAmount")
    ELSE IF initial_funding > 0
    THEN CASE pool_data.reward_type = "SOL" ->
                IF CanTransfer(wallet[authority]["SOL"], initial_funding)
                THEN RdOutcome("Ok", created, claims,
                               [vault0 EXCEPT ![id] = @ + initial_funding],
                               Debit(wallet, authority, "SOL", initial_funding), 0)
                ELSE RdFail("InsufficientFunds")
           [] pool_data.reward_type = "SplToken" ->
                IF ~pool_data.token_mint THEN RdFail("MissingTokenMint")
                ELSE IF CanTransfer(wallet[authority]["SplToken"], initial_funding)
                THEN RdOutcome("Ok", created, claims,
                               [vault0 EXCEPT ![id] = @ + initial_funding],
                               Debit(wallet, authority, "SplToken", initial_funding), 0)
                ELSE RdFail("InsufficientFunds")
           [] pool_data.reward_type = "NFT" ->
                nft_initial_funding(created, vault0)
    ELSE RdOutcome("Ok", created, claims, vault0, wallet, 0)

\* A variant of pool_is_active that lets a closed pool pass
pool_is_active_unchecked(reward_pool) == TRUE
\* require!(reward_pool.active, PoolNotActive)
pool_is_active(reward_pool) == reward_pool.active

\* A variant of period_started that excludes start_time itself
period_started_strictly(current_time, reward_pool) ==
    current_time > reward_pool.start_time
\* require!(current_time >= reward_pool.start_time, ClaimPeriodNotStarted)
period_started(current_time, reward_pool) ==
    current_time >= reward_pool.start_time

fund_reward_pool(funder, pool_id, amount) ==
    IF pool_id \notin DOMAIN pools THEN RdFail("AccountNotInitialized")
    ELSE
    LET reward_pool == pools[pool_id]
        sum == reward_pool.total_rewards + amount
    IN
    IF ~pool_is_active(reward_pool) THEN RdFail("PoolNotActive")
    ELSE IF ~(amount > 0) THEN RdFail("InvalidRewardAmount")
    ELSE IF reward_pool.reward_type = "NFT" THEN RdFail("NFTFundingUnsupported")
    ELSE IF ~CanTransfer(wallet[funder][reward_pool.reward_type], amount)
    THEN RdFail("InsufficientFunds")
    ELSE IF ~InU64(sum) /\ overflow_checks THEN RdFail("Panic")
    ELSE RdOutcome("Ok",
                   [pools EXCEPT ![pool_id].total_rewards = Wrap(sum)],
                   claims,
                   [vault EXCEPT ![pool_id] = @ + amount],
                   Debit(wallet, funder, reward_pool.reward_type, amount), 0)

\* A variant of write_total_eligible that adds to what the record holds
write_total_eligible_added(user_claim, calculated) ==
    [user_claim EXCEPT !.total_eligible = Wrap(@ + calculated)]
\* user_claim.total_eligible = calculated_reward (existing record)
write_total_eligible(user_claim, calculated) ==
    [user_claim EXCEPT !.total_eligible = calculated]

calculate_user_rewards(user, pool_id, performance_data) ==
    IF pool_id \notin DOMAIN pools THEN RdFail("AccountNotInitialized")
    ELSE
    LET reward_pool == pools[pool_id]
        key == <<pool_id, user>>
        current_time == now
        reward == calculated_reward(reward_pool, performance_data)
        user_claim ==
            IF key \notin DOMAIN claims
            THEN [amount_claimed |-> 0, last_claim_time |-> 0,
                  total_eligible |-> reward.value]
            ELSE write_total_eligible(claims[key], reward.value)
    IN
    IF ~pool_is_active(reward_pool) THEN RdFail("PoolNotActive")
    ELSE IF ~period_started(current_time, reward_pool) THEN RdFail("ClaimPeriodNotStarted")
    ELSE IF ~(current_time <= reward_pool.end_time) THEN RdFail("ClaimPeriodEnded")
    ELSE IF ~PerformanceData_validate(performance_data)
    THEN RdFail("InvalidPerformanceData")
    ELSE IF ~reward.ok THEN RdFail("Panic")
    ELSE RdOutcome("Ok", pools, key :> user_claim @@ claims, vault, wallet,
                   reward.value)

\* A variant of record_claim that also uses up the eligibility
record_claim_consumed(user_claim, new_claimed) ==
    [user_claim EXCEPT !.amount_claimed = new_claimed,
                       !.last_claim_time = now,
                       !.total_eligible = 0]
\* user_claim.amount_claimed += claimable_amount;
\* user_claim.last_claim_time = current_time
record_claim(user_claim, new_claimed) ==
    [user_claim EXCEPT !.amount_claimed = new_claimed,
                       !.last_claim_time = now]

\* A variant of settle_claim that writes the records before the transfer
\* and keeps them when the transfer fails
settle_claim_early_write(user, pool_id, claimable_amount, new_distributed, new_claimed) ==
    LET reward_pool == pools[pool_id]
        key == <<pool_id, user>>
        written_pools == [pools EXCEPT ![pool_id].distributed_rewards = new_distributed]
        written_claims == [claims EXCEPT ![key].amount_claimed = new_claimed,
                                         ![key].last_claim_time = now]
    IN
    IF reward_pool.reward_type = "NFT" THEN RdFail("NFTClaimUnsupported")
    ELSE IF ~CanTransfer(vault[pool_id], claimable_amount)
    THEN RdOutcome("InsufficientFunds", written_pools, written_claims, vault, wallet, 0)
    ELSE RdOutcome("Ok", written_pools, written_claims,
                   [vault EXCEPT ![pool_id] = @ - claimable_amount],
                   Credit(wallet, user, reward_pool.reward_type, claimable_amount),
                   0)

\* claim_rewards from the transfer on: pay claimable_amount out of the
\* vault, then update the claim record and the pool
settle_claim(user, pool_id, claimable_amount, new_distributed, new_claimed) ==
    LET reward_pool == pools[pool_id]
        key == <<pool_id, user>>
    IN
    IF reward_pool.reward_type = "NFT" THEN RdFail("NFTClaimUnsupported")
    ELSE IF ~CanTransfer(vault[pool_id], claimable_amount)
    THEN RdFail("InsufficientFunds")
    ELSE RdOutcome("Ok",
                   [pools EXCEPT ![pool_id].distributed_rewards = new_distributed],
                   [claims EXCEPT ![key] = record_claim(@, new_claimed)],
                   [vault EXCEPT ![pool_id] = @ - claimable_amount],
                   Credit(wallet, user, reward_pool.reward_type, claimable_amount),
                   0)

claim_rewards(user, pool_id) ==
    IF pool_id \notin DOMAIN pools \/ <<pool_id, user>> \notin DOMAIN claims
    THEN RdFail("AccountNotInitialized")
    ELSE
    LET reward_pool == pools[pool_id]
        user_claim == claims[<<pool_id, user>>]
        current_time == now
        diff == user_claim.total_eligible - user_claim.amount_claimed
        claimable_amount == Wrap(diff)
        needed == reward_pool.distributed_rewards + claimable_amount
        new_claimed == user_claim.amount_claimed + claimable_amount
    IN
    IF ~pool_is_active(reward_pool) THEN RdFail("PoolNotActive")
    ELSE IF ~period_started(current_time, reward_pool) THEN RdFail("ClaimPeriodNotStarted")
    ELSE IF ~(current_time <= reward_pool.end_time) THEN RdFail("ClaimPeriodEnded")
    ELSE IF ~InU64(diff) /\ overflow_checks THEN RdFail("Panic")
    ELSE IF ~(claimable_amount > 0) THEN RdFail("NothingToClaim")
    ELSE IF ~InU64(needed) /\ overflow_checks THEN RdFail("Panic")
    ELSE IF ~(reward_pool.total_rewards >= Wrap(needed))
    THEN RdFail("InsufficientPoolFunds")
    ELSE IF ~InU64(new_claimed) /\ overflow_checks /\ reward_pool.reward_type # "NFT"
            /\ CanTransfer(vault[pool_id], claimable_amount)
    THEN RdFail("Panic")
    ELSE settle_claim(user, pool_id, claimable_amount, Wrap(needed), Wrap(new_claimed))

\* The view get_claimable_amount: [err, value]
get_claimable_amount(user, pool_id) ==
    IF pool_id \notin DOMAIN pools THEN [err |-> "AccountNotInitialized", value |-> 0]
    ELSE IF <<pool_id, user>> \notin DOMAIN claims THEN [err |-> "Ok", value |-> 0]
    ELSE
    LET user_claim == claims[<<pool_id, user>>]
        diff == user_claim.total_eligible - user_claim.amount_claimed
    IN  IF ~InU64(diff) /\ overflow_checks THEN [err |-> "Panic", value |-> 0]
        ELSE [err |-> "Ok", value |-> Wrap(diff)]

update_distribution_criteria(authority, pool_id, new_criteria) ==
    IF pool_id \notin DOMAIN pools THEN RdFail("AccountNotInitialized")
    ELSE
    LET reward_pool == pools[pool_id]
        current_time == now
    IN
    IF reward_pool.authority # authority THEN RdFail("ConstraintHasOne")
    ELSE IF ~(current_time < reward_pool.start_time)
    THEN RdFail("CannotUpdateActivePool")
    ELSE RdOutcome("Ok",
                   [pools EXCEPT ![pool_id].distribution_criteria = new_criteria],
                   claims, vault, wallet, 0)

close_reward_pool(authority, pool_id) ==
    IF pool_id \notin DOMAIN pools THEN RdFail("AccountNotInitialized")
    ELSE
    LET reward_pool == pools[pool_id]
        current_time == now
        diff == reward_pool.total_rewards - reward_pool.distributed_rewards
        remaining_funds == Wrap(diff)
        closed == [pools EXCEPT ![pool_id].active = FALSE]
    IN
    IF reward_pool.authority # authority THEN RdFail("ConstraintHasOne")
    ELSE IF ~(current_time > reward_pool.end_time) THEN RdFail("PoolStillActive")
    ELSE IF ~InU64(diff) /\ overflow_checks THEN RdFail("Panic")
    ELSE IF remaining_funds > 0 /\ reward_pool.reward_type # "NFT"
    THEN IF CanTransfer(vault[pool_id], remaining_funds)
         THEN RdOutcome("Ok", closed, claims,
                        [vault EXCEPT ![pool_id] = @ - remaining_funds],
                        Credit(wallet, authority, reward_pool.reward_type,
                               remaining_funds), 0)
         ELSE RdFail("InsufficientFunds")
    ELSE RdOutcome("Ok", closed, claims, vault, wallet, 0)

----------------------------------------------------------------------------
\* reward_distributor: the requests that are tried

\* a pool is funded in units of half of what a user holds
FundingUnit == InitialBalance \div 2
AmountInputs == {0, FundingUnit}

CriteriaInputs == {"EqualShare", "AchievementBased"}

\* well-formed pool data: claim window [1, 2]
ValidPoolData ==
    [id : PoolIds,
     name_len : {50},
     total_rewards : {FundingUnit, 1000, U64_MOD - FundingUnit},
     reward_type : RewardTypes,
     token_mint : {TRUE},
     distribution_criteria : CriteriaInputs,
     start_time : {1},
     end_time : {2}]

\* one request per validation that create_reward_pool makes
InvalidPoolData ==
    LET ok == [id |-> 1, name_len |-> 50, total_rewards |-> 1000,
               reward_type |-> "SplToken", token_mint |-> TRUE,
               distribution_criteria |-> "EqualShare",
               start_time |-> 1, end_time |-> 2]
    IN  {[ok EXCEPT !.name_len = 51],
         [ok EXCEPT !.start_time = 0],
         [ok EXCEPT !.end_time = 1],
         [ok EXCEPT !.total_rewards = 0],
         [ok EXCEPT !.token_mint = FALSE]}

PoolDataInputs == ValidPoolData \cup InvalidPoolData


PerformanceInputs ==
    {[score |-> 100, completion_time |-> 60, staking_duration |-> 40 * 86400,
      achievements_unlocked |-> 3, random_seed |-> 5],
     [score |-> 0, completion_time |-> 0, staking_duration |-> 0,
      achievements_unlocked |-> 0, random_seed |-> 50],
     [score |-> 101, completion_time |-> 0, staking_duration |-> 0,
      achievements_unlocked |-> 0, random_seed |-> 0]}

\* the identity that creates and funds pools
Authorities == {1}

\* An action is one transaction.  A successful transaction replaces the
\* accounts it wrote; a failed one leaves every account as it is, which is
\* a stuttering step.

CreateRewardPool ==
    \E a \in Authorities, pd \in PoolDataInputs, f \in AmountInputs :
        LET r == create_reward_pool(a, pd, f) IN
        /\ r.err = "Ok"
        /\ pools' = r.pools /\ claims' = r.claims
        /\ vault' = r.vault /\ wallet' = r.wallet
        /\ UNCHANGED <<now, overflow_checks, question_bank, questions, reputations,
                     inflight,
                       tournament_manager, tournaments, registrations, token_accounts>>

FundRewardPool ==
    \E u \in Authorities, p \in PoolIds, amt \in AmountInputs :
        LET r == fund_reward_pool(u, p, amt) IN
        /\ r.err = "Ok"
        /\ pools' = r.pools /\ claims' = r.claims
        /\ vault' = r.vault /\ wallet' = r.wallet
        /\ UNCHANGED <<now, overflow_checks, question_bank, questions, reputations,
                     inflight,
                       tournament_manager, tournaments, registrations, token_accounts>>

CalculateUserRewards ==
    \E u \in Users, p \in PoolIds, pd \in PerformanceInputs :
        LET r == calculate_user_rewards(u, p, pd) IN
        /\ r.err = "Ok"
        /\ pools' = r.pools /\ claims' = r.claims
        /\ vault' = r.vault /\ wallet' = r.wallet
        /\ UNCHANGED <<now, overflow_checks, question_bank, questions, reputations,
                     inflight,
                       tournament_manager, tournaments, registrations, token_accounts>>

ClaimRewards ==
    \E u \in Users, p \in PoolIds :
        LET r == claim_rewards(u, p) IN
        /\ r.err = "Ok"
        /\ pools' = r.pools /\ claims' = r.claims
        /\ vault' = r.vault /\ wallet' = r.wallet
        /\ UNCHANGED <<now, overflow_checks, question_bank, questions, reputations,
                     inflight,
                       tournament_manager, tournaments, registrations, token_accounts>>

UpdateDistributionCriteria ==
    \E u \in Users, p \in PoolIds, c \in CriteriaInputs :
        LET r == update_distribution_criteria(u, p, c) IN
        /\ r.err = "Ok"
        /\ pools' = r.pools /\ claims' = r.claims
        /\ vault' = r.vault /\ wallet' = r.wallet
        /\ UNCHANGED <<now, overflow_checks, question_bank, questions, reputations,
                     inflight,
                       tournament_manager, tournaments, registrations, token_accounts>>

CloseRewardPool ==
    \E u \in Users, p \in PoolIds :
        LET r == close_reward_pool(u, p) IN
        /\ r.err = "Ok"
        /\ pools' = r.pools /\ claims' = r.claims
        /\ vault' = r.vault /\ wallet' = r.wallet
        /\ UNCHANGED <<now, overflow_checks, question_bank, questions, reputations,
                     inflight,
                       tournament_manager, tournaments, registrations, token_accounts>>

\* Clock: the timestamp of the next transaction is later
Tick ==
    /\ now < MaxTime
    /\ now' = now + 1
    /\ UNCHANGED <<pools, claims, vault, wallet, overflow_checks,
                   question_bank, questions, reputations, inflight,
                   tournament_manager, tournaments, registrations, token_accounts>>

RdNext ==
    \/ CreateRewardPool
    \/ FundRewardPool
    \/ CalculateUserRewards
    \/ ClaimRewards
    \/ UpdateDistributionCriteria
    \/ CloseRewardPool
    \/ Tick

\* Before the first transaction: no account exists.  The build profile is
\* not part of the sources: both settings of overflow-checks are taken.
InitRD ==
    /\ pools = <<>>
    /\ claims = <<>>
    /\ vault = <<>>
    /\ wallet = [u \in Users |-> [a \in {"SOL", "SplToken"} |-> InitialBalance]]
    /\ now = 0
    /\ overflow_checks \in BOOLEAN
    /\ question_bank = [initialized |-> FALSE]
    /\ questions = <<>>
    /\ reputations = <<>>
    /\ tournament_manager = [initialized |-> FALSE]
    /\ tournaments = <<>>
    /\ registrations = <<>>
    /\ token_accounts = <<>>
    /\ inflight = <<>>

SpecRD == InitRD /\ [][RdNext]_vars

----------------------------------------------------------------------------
\* question_bank: data

\* The voters and curators vectors are kept up to the order of their
\* elements (a bag): push adds one copy, contains tests membership, and no
\* handler reads a position.
Contains(vec, x) == BagIn(x, vec)
Push(vec, x) == vec (+) SetToBag({x})
VecLen(vec) == BagCardinality(vec)
\* Vec::remove(position of the first x)
RemoveFirst(vec, x) == vec (-) SetToBag({x})

\* The outcome of one question_bank transaction
QbOutcome(e, qb, qs, reps) ==
    [err |-> e, question_bank |-> qb, questions |-> qs, reputations |-> reps]
\* A failed transaction persists nothing
QbFail(e) == QbOutcome(e, question_bank, questions, reputations)

\* Question ids in use; the account of question id is questions[id + 1]
QuestionIds == {i - 1 : i \in 1..Len(questions)}
Question(id) == questions[id + 1]

\* The bytes an account of the program can hold after its discriminator
QuestionBank_SPACE == 32 + 8 + 8 + (4 + 32 * 20) + 1
Question_SPACE == 8 + 32 + 500 + (4 * 100) + 1 + 50 + 1 + 4 + 4 + (4 + 32 * 50) + 1 + 8 + 1

\* The bytes the serialized account takes: a String and a Vec carry a
\* 4-byte length before their content
QuestionBank_size(bank) == 32 + 8 + 8 + (4 + 32 * VecLen(bank.curators)) + 1
Question_size(question) ==
    8 + 32 + (4 + question.question_text_len) + 4 * (4 + question.option_len)
      + 1 + (4 + question.category_len) + 1 + 4 + 4
      + (4 + 32 * VecLen(question.voters)) + 1 + 8 + 1

QuestionData_valid(qd) ==
    /\ qd.question_text_len <= 500
    /\ qd.category_len <= 50
    /\ qd.difficulty >= 1 /\ qd.difficulty <= 3
    /\ qd.correct_answer <= 3
    /\ qd.option_len <= 100

----------------------------------------------------------------------------
\* question_bank: instruction handlers

initialize_question_bank(authority) ==
    IF question_bank.initialized THEN QbFail("AccountAlreadyInUse")
    ELSE QbOutcome("Ok",
                   [initialized |-> TRUE,
                    authority |-> authority,
                    total_questions |-> 0,
                    active_questions |-> 0,
                    curators |-> SetToBag({authority})],
                   questions, reputations)

\* A variant of initialize_user_reputation that writes the starting record
\* over an existing one
initialize_user_reputation_again(user) ==
    QbOutcome("Ok", question_bank, questions,
              user :> [questions_submitted |-> 0,
                       questions_approved |-> 0,
                       curation_votes |-> 0,
                       reputation_score |-> 100] @@ reputations)

initialize_user_reputation(user) ==
    IF user \in DOMAIN reputations THEN QbFail("AccountAlreadyInUse")
    ELSE QbOutcome("Ok", question_bank, questions,
                   user :> [questions_submitted |-> 0,
                            questions_approved |-> 0,
                            curation_votes |-> 0,
                            reputation_score |-> 100] @@ reputations)

\* A variant of count_question that leaves the counter as it is
count_question_skipped(bank) == bank
\* question_bank.total_questions += 1
count_question(bank) == [bank EXCEPT !.total_questions = @ + 1]

\* A variant of may_submit that lets every score pass
may_submit_unchecked(user_reputation) == TRUE
\* require!(user_reputation.reputation_score >= 100, ...)
may_submit(user_reputation) == user_reputation.reputation_score >= 100

submit_question(submitter, question_data) ==
    IF ~question_bank.initialized \/ submitter \notin DOMAIN reputations
    THEN QbFail("AccountNotInitialized")
    ELSE
    LET user_reputation == reputations[submitter]
        question == [id |-> question_bank.total_questions,
                     submitter |-> submitter,
                     question_text_len |-> question_data.question_text_len,
                     option_len |-> question_data.option_len,
                     category_len |-> question_data.category_len,
                     difficulty |-> question_data.difficulty,
                     votes_approve |-> 0,
                     votes_reject |-> 0,
                     voters |-> EmptyBag,
                     status |-> "Pending"]
    IN
    \* init of the account seeded by total_questions
    IF question_bank.total_questions \in QuestionIds THEN QbFail("AccountAlreadyInUse")
    ELSE IF ~QuestionData_valid(question_data) THEN QbFail("InvalidQuestionFormat")
    ELSE IF ~may_submit(user_reputation)
    THEN QbFail("InsufficientReputation")
    ELSE IF Question_size(question) > Question_SPACE
    THEN QbFail("AccountDidNotSerialize")
    ELSE QbOutcome("Ok",
                   count_question(question_bank),
                   Append(questions, question),
                   [reputations EXCEPT ![submitter].questions_submitted = @ + 1])

\* A variant of is_pending that lets every status pass
is_pending_unchecked(question) == TRUE
\* require!(question.status == QuestionStatus::Pending, ...)
is_pending(question) == question.status = "Pending"

\* A variant of is_not_submitter that lets the submitter pass
may_vote_on_own(question, voter) == TRUE
\* require!(question.submitter != voter, ...)
is_not_submitter(question, voter) == question.submitter # voter

\* A variant of has_not_voted that lets an earlier voter pass
has_not_voted_unchecked(question, voter) == TRUE
\* require!(!question.voters.contains(&voter), ...)
has_not_voted(question, voter) == ~Contains(question.voters, voter)

\* A variant of record_vote that counts the vote and forgets the voter
record_vote_without_voter(question, voter, vote_type) ==
    [question EXCEPT
        !.votes_approve = IF vote_type = "Approve" THEN @ + 1 ELSE @,
        !.votes_reject = IF vote_type = "Reject" THEN @ + 1 ELSE @]
\* voters.push(voter) and the counter of the vote type
record_vote(question, voter, vote_type) ==
    [question EXCEPT
        !.voters = Push(@, voter),
        !.votes_approve = IF vote_type = "Approve" THEN @ + 1 ELSE @,
        !.votes_reject = IF vote_type = "Reject" THEN @ + 1 ELSE @]

\* A variant of vote_on_question that tests the voter before the status
vote_on_question_voter_first(voter, q, vote_type) ==
    IF q \notin QuestionIds \/ voter \notin DOMAIN reputations
    THEN QbFail("AccountNotInitialized")
    ELSE
    LET question == Question(q) IN
    IF ~is_not_submitter(question, voter) THEN QbFail("CannotVoteOnOwnQuestion")
    ELSE IF ~has_not_voted(question, voter) THEN QbFail("AlreadyVoted")
    ELSE IF ~is_pending(question) THEN QbFail("QuestionNotPending")
    \* the account is written back when the handler returns
    ELSE IF Question_size(record_vote(question, voter, vote_type)) > Question_SPACE
    THEN QbFail("AccountDidNotSerialize")
    ELSE QbOutcome("Ok", question_bank,
                   [questions EXCEPT ![q + 1] = record_vote(question, voter, vote_type)],
                   [reputations EXCEPT ![voter].curation_votes = @ + 1,
                                       ![voter].reputation_score = @ + 10])

vote_on_question(voter, q, vote_type) ==
    IF q \notin QuestionIds \/ voter \notin DOMAIN reputations
    THEN QbFail("AccountNotInitialized")
    ELSE
    LET question == Question(q) IN
    IF ~is_pending(question) THEN QbFail("QuestionNotPending")
    ELSE IF ~is_not_submitter(question, voter) THEN QbFail("CannotVoteOnOwnQuestion")
    ELSE IF ~has_not_voted(question, voter) THEN QbFail("AlreadyVoted")
    \* the account is written back when the handler returns
    ELSE IF Question_size(record_vote(question, voter, vote_type)) > Question_SPACE
    THEN QbFail("AccountDidNotSerialize")
    ELSE QbOutcome("Ok", question_bank,
                   [questions EXCEPT ![q + 1] = record_vote(question, voter, vote_type)],
                   [reputations EXCEPT ![voter].curation_votes = @ + 1,
                                       ![voter].reputation_score = @ + 10])

\* A variant of the quorum check that accepts one vote less
has_quorum_of_four(total_votes) == total_votes >= 4
\* require!(total_votes >= 5, ...)
has_quorum(total_votes) == total_votes >= 5

\* A variant of is_curator that lets every caller pass
is_curator_unchecked(bank, curator) == TRUE
\* require!(question_bank.curators.contains(&curator), ...)
is_curator(bank, curator) == Contains(bank.curators, curator)

\* A variant of majority_approves that approves on a tie
majority_or_tie_approves(question) == question.votes_approve >= question.votes_reject
\* if question.votes_approve > question.votes_reject
majority_approves(question) == question.votes_approve > question.votes_reject

\* A variant of count_approved that leaves the counter as it is
count_approved_skipped(bank) == bank
\* question_bank.active_questions += 1
count_approved(bank) == [bank EXCEPT !.active_questions = @ + 1]

finalize_question(curator, q, question_id) ==
    IF ~question_bank.initialized \/ q \notin QuestionIds
    THEN QbFail("AccountNotInitialized")
    ELSE
    LET question == Question(q)
        total_votes == question.votes_approve + question.votes_reject
        submitter_reputation == reputations[question.submitter]
    IN
    IF ~is_curator(question_bank, curator) THEN QbFail("UnauthorizedCurator")
    ELSE IF ~(question.id = question_id) THEN QbFail("QuestionNotFound")
    ELSE IF ~is_pending(question) THEN QbFail("QuestionNotPending")
    ELSE IF ~has_quorum(total_votes) THEN QbFail("InsufficientVotes")
    ELSE IF majority_approves(question)
    THEN QbOutcome("Ok",
                   count_approved(question_bank),
                   [questions EXCEPT ![q + 1].status = "Approved"],
                   [reputations EXCEPT
                       ![question.submitter].questions_approved = @ + 1,
                       ![question.submitter].reputation_score = @ + 50])
    ELSE QbOutcome("Ok", question_bank,
                   [questions EXCEPT ![q + 1].status = "Rejected"],
                   [reputations EXCEPT
                       ![question.submitter].reputation_score =
                           IF submitter_reputation.reputation_score > 10
                           THEN @ - 10 ELSE @])

update_reputation(user, action_type) ==
    IF user \notin DOMAIN reputations THEN QbFail("AccountNotInitialized")
    ELSE
    LET user_reputation == reputations[user]
        updated ==
            CASE action_type = "QuestionSubmitted" ->
                    [user_reputation EXCEPT !.questions_submitted = @ + 1,
                                            !.reputation_score = @ + 5]
              [] action_type = "QuestionApproved" ->
                    [user_reputation EXCEPT !.questions_approved = @ + 1,
                                            !.reputation_score = @ + 50]
              [] action_type = "QuestionRejected" ->
                    [user_reputation EXCEPT !.reputation_score =
                        IF user_reputation.reputation_score > 10 THEN @ - 10 ELSE @]
              [] action_type = "VoteCast" ->
                    [user_reputation EXCEPT !.curation_votes = @ + 1,
                                            !.reputation_score = @ + 10]
    IN  QbOutcome("Ok", question_bank, questions,
                  [reputations EXCEPT ![user] = updated])

\* A variant of add_curator that does not look for the curator in the set
add_curator_unchecked(authority, new_curator) ==
    IF ~question_bank.initialized THEN QbFail("AccountNotInitialized")
    ELSE IF ~(authority = question_bank.authority) THEN QbFail("UnauthorizedAuthority")
    \* the account is written back when the handler returns
    ELSE IF QuestionBank_size([question_bank EXCEPT !.curators = Push(@, new_curator)])
              > QuestionBank_SPACE
    THEN QbFail("AccountDidNotSerialize")
    ELSE QbOutcome("Ok",
                   [question_bank EXCEPT !.curators = Push(@, new_curator)],
                   questions, reputations)

add_curator(authority, new_curator) ==
    IF ~question_bank.initialized THEN QbFail("AccountNotInitialized")
    ELSE IF ~(authority = question_bank.authority) THEN QbFail("UnauthorizedAuthority")
    ELSE IF Contains(question_bank.curators, new_curator)
    THEN QbFail("CuratorAlreadyExists")
    \* the account is written back when the handler returns
    ELSE IF QuestionBank_size([question_bank EXCEPT !.curators = Push(@, new_curator)])
              > QuestionBank_SPACE
    THEN QbFail("AccountDidNotSerialize")
    ELSE QbOutcome("Ok",
                   [question_bank EXCEPT !.curators = Push(@, new_curator)],
                   questions, reputations)

\* A variant of remove_curator that lets the authority be removed
remove_curator_any(authority, curator_to_remove) ==
    IF ~question_bank.initialized THEN QbFail("AccountNotInitialized")
    ELSE IF ~(authority = question_bank.authority) THEN QbFail("UnauthorizedAuthority")
    ELSE IF Contains(question_bank.curators, curator_to_remove)
    THEN QbOutcome("Ok",
                   [question_bank EXCEPT !.curators = RemoveFirst(@, curator_to_remove)],
                   questions, reputations)
    ELSE QbFail("CuratorNotFound")

remove_curator(authority, curator_to_remove) ==
    IF ~question_bank.initialized THEN QbFail("AccountNotInitialized")
    ELSE IF ~(authority = question_bank.authority) THEN QbFail("UnauthorizedAuthority")
    ELSE IF ~(curator_to_remove # question_bank.authority)
    THEN QbFail("CannotRemoveAuthority")
    ELSE IF Contains(question_bank.curators, curator_to_remove)
    THEN QbOutcome("Ok",
                   [question_bank EXCEPT !.curators = RemoveFirst(@, curator_to_remove)],
                   questions, reputations)
    ELSE QbFail("CuratorNotFound")

----------------------------------------------------------------------------
\* question_bank: the requests that are tried

QuestionDataInputs ==
    LET ok == [question_text_len |-> 500, option_len |-> 100, category_len |-> 50,
               difficulty |-> 1, correct_answer |-> 3]
    IN  {ok,
         [ok EXCEPT !.question_text_len = 501],
         [ok EXCEPT !.option_len = 101],
         [ok EXCEPT !.category_len = 51],
         [ok EXCEPT !.difficulty = 0],
         [ok EXCEPT !.difficulty = 4],
         [ok EXCEPT !.correct_answer = 4]}

VoteTypes == {"Approve", "Reject"}
ReputationActions == {"QuestionSubmitted", "QuestionApproved",
                      "QuestionRejected", "VoteCast"}
\* the identities that submit questions
Submitters == {1}
\* the identities proposed as curators
CuratorInputs == {1, 2}
\* the identities that try the curator and authority instructions:
\* the authority, a proposed curator and an ordinary member
Callers == {1, 2, 3}
\* question accounts and question ids that are named in requests
QuestionInputs == 0..MaxQuestions

InitializeQuestionBank ==
    \E a \in Authorities :
        LET r == initialize_question_bank(a) IN
        /\ r.err = "Ok"
        /\ question_bank' = r.question_bank /\ questions' = r.questions
        /\ reputations' = r.reputations
        /\ UNCHANGED <<pools, claims, vault, wallet, now, overflow_checks, inflight,
                       tournament_manager, tournaments, registrations, token_accounts>>

\* the members are interchangeable: they register in the order of their numbers
InitializeUserReputation ==
    \E u \in Members :
        LET r == initialize_user_reputation(u) IN
        /\ \A v \in 1..(u - 1) : v \in DOMAIN reputations
        /\ r.err = "Ok"
        /\ question_bank' = r.question_bank /\ questions' = r.questions
        /\ reputations' = r.reputations
        /\ UNCHANGED <<pools, claims, vault, wallet, now, overflow_checks, inflight,
                       tournament_manager, tournaments, registrations, token_accounts>>

SubmitQuestion ==
    \E u \in Submitters, qd \in QuestionDataInputs :
        LET r == submit_question(u, qd) IN
        /\ Len(questions) < MaxQuestions
        /\ r.err = "Ok"
        /\ question_bank' = r.question_bank /\ questions' = r.questions
        /\ reputations' = r.reputations
        /\ UNCHANGED <<pools, claims, vault, wallet, now, overflow_checks, inflight,
                       tournament_manager, tournaments, registrations, token_accounts>>

VoteOnQuestion ==
    \E u \in Members, q \in QuestionInputs, t \in VoteTypes :
        LET r == vote_on_question(u, q, t) IN
        /\ r.err = "Ok"
        /\ question_bank' = r.question_bank /\ questions' = r.questions
        /\ reputations' = r.reputations
        /\ UNCHANGED <<pools, claims, vault, wallet, now, overflow_checks, inflight,
                       tournament_manager, tournaments, registrations, token_accounts>>

FinalizeQuestion ==
    \E u \in Callers, q \in QuestionInputs, id \in QuestionInputs :
        LET r == finalize_question(u, q, id) IN
        /\ r.err = "Ok"
        /\ question_bank' = r.question_bank /\ questions' = r.questions
        /\ reputations' = r.reputations
        /\ UNCHANGED <<pools, claims, vault, wallet, now, overflow_checks, inflight,
                       tournament_manager, tournaments, registrations, token_accounts>>

UpdateReputation ==
    \E u \in Submitters, a \in ReputationActions :
        LET r == update_reputation(u, a) IN
        /\ r.err = "Ok"
        /\ reputations[u].reputation_score <= MaxScore
        /\ reputations[u].questions_submitted <= MaxQuestions
        /\ reputations[u].questions_approved <= MaxQuestions
        /\ reputations[u].curation_votes <= MaxQuestions
        /\ question_bank' = r.question_bank /\ questions' = r.questions
        /\ reputations' = r.reputations
        /\ UNCHANGED <<pools, claims, vault, wallet, now, overflow_checks, inflight,
                       tournament_manager, tournaments, registrations, token_accounts>>

AddCurator ==
    \E u \in Callers, c \in CuratorInputs :
        LET r == add_curator(u, c) IN
        /\ r.err = "Ok"
        /\ question_bank' = r.question_bank /\ questions' = r.questions
        /\ reputations' = r.reputations
        /\ UNCHANGED <<pools, claims, vault, wallet, now, overflow_checks, inflight,
                       tournament_manager, tournaments, registrations, token_accounts>>

RemoveCurator ==
    \E u \in Callers, c \in CuratorInputs :
        LET r == remove_curator(u, c) IN
        /\ r.err = "Ok"
        /\ question_bank' = r.question_bank /\ questions' = r.questions
        /\ reputations' = r.reputations
        /\ UNCHANGED <<pools, claims, vault, wallet, now, overflow_checks, inflight,
                       tournament_manager, tournaments, registrations, token_accounts>>

\* update_reputation writes one reputation record and reads no question:
\* UpdateReputation is not among the steps of SpecQB
QbNext ==
    \/ InitializeQuestionBank
    \/ InitializeUserReputation
    \/ SubmitQuestion
    \/ VoteOnQuestion
    \/ FinalizeQuestion
    \/ AddCurator
    \/ RemoveCurator

\* Before the first transaction: no account of the question bank exists
InitQB ==
    /\ question_bank = [initialized |-> FALSE]
    /\ questions = <<>>
    /\ reputations = <<>>
    /\ tournament_manager = [initialized |-> FALSE]
    /\ tournaments = <<>>
    /\ registrations = <<>>
    /\ token_accounts = <<>>
    /\ inflight = <<>>
    /\ pools = <<>>
    /\ claims = <<>>
    /\ vault = <<>>
    /\ wallet = [u \in Users |-> [a \in {"SOL", "SplToken"} |-> InitialBalance]]
    /\ now = 0
    /\ overflow_checks = TRUE

SpecQB == InitQB /\ [][QbNext]_vars

----------------------------------------------------------------------------
\* reward_distributor with many claimants: one pool of the largest amount,
\* funded in full by the authority, and claimants that each unlock enough
\* achievements for the 20% cap and may pay what they received back into
\* the pool

NumClaimants == 6
Claimants == 1..NumClaimants

WidePoolData ==
    [id |-> 1, name_len |-> 50, total_rewards |-> U64_MAX,
     reward_type |-> "SplToken", token_mint |-> TRUE,
     distribution_criteria |-> "AchievementBased",
     start_time |-> 1, end_time |-> 2]

WidePerformance ==
    [score |-> 0, completion_time |-> 0, staking_duration |-> 0,
     achievements_unlocked |-> 20, random_seed |-> 50]

WideCreate ==
    \E a \in Authorities :
        LET r == create_reward_pool(a, WidePoolData, U64_MAX) IN
        /\ r.err = "Ok"
        /\ pools' = r.pools /\ claims' = r.claims
        /\ vault' = r.vault /\ wallet' = r.wallet
        /\ UNCHANGED <<now, overflow_checks, question_bank, questions, reputations,
                     inflight,
                       tournament_manager, tournaments, registrations, token_accounts>>

\* the claimants are interchangeable: they arrive in the order of their
\* numbers, and the eligibility of each is computed once
WideCalculate ==
    \E u \in Claimants :
        LET r == calculate_user_rewards(u, 1, WidePerformance) IN
        /\ \A v \in 1..(u - 1) : <<1, v>> \in DOMAIN claims
        /\ <<1, u>> \notin DOMAIN claims
        /\ r.err = "Ok"
        /\ pools' = r.pools /\ claims' = r.claims
        /\ vault' = r.vault /\ wallet' = r.wallet
        /\ UNCHANGED <<now, overflow_checks, question_bank, questions, reputations,
                     inflight,
                       tournament_manager, tournaments, registrations, token_accounts>>

WideClaim ==
    \E u \in Claimants :
        LET r == claim_rewards(u, 1) IN
        /\ r.err = "Ok"
        /\ pools' = r.pools /\ claims' = r.claims
        /\ vault' = r.vault /\ wallet' = r.wallet
        /\ UNCHANGED <<now, overflow_checks, question_bank, questions, reputations,
                     inflight,
                       tournament_manager, tournaments, registrations, token_accounts>>

WideFund ==
    \E u \in Claimants :
        LET r == fund_reward_pool(u, 1, wallet[u]["SplToken"]) IN
        /\ r.err = "Ok"
        /\ pools' = r.pools /\ claims' = r.claims
        /\ vault' = r.vault /\ wallet' = r.wallet
        /\ UNCHANGED <<now, overflow_checks, question_bank, questions, reputations,
                     inflight,
                       tournament_manager, tournaments, registrations, token_accounts>>

WideNext ==
    \/ WideCreate
    \/ WideCalculate
    \/ WideClaim
    \/ WideFund
    \/ Tick

InitWide ==
    /\ pools = <<>>
    /\ claims = <<>>
    /\ vault = <<>>
    /\ wallet = [u \in Claimants |->
                    [a \in {"SOL", "SplToken"} |->
                        IF u \in Authorities /\ a = "SplToken" THEN U64_MAX ELSE 0]]
    /\ now = 0
    /\ overflow_checks \in BOOLEAN
    /\ question_bank = [initialized |-> FALSE]
    /\ questions = <<>>
    /\ reputations = <<>>
    /\ tournament_manager = [initialized |-> FALSE]
    /\ tournaments = <<>>
    /\ registrations = <<>>
    /\ token_accounts = <<>>
    /\ inflight = <<>>

SpecRDWide == InitWide /\ [][WideNext]_vars

----------------------------------------------------------------------------
\* Both programs.  They share no account, so a behaviour runs the
\* instructions of one program or of the other.

RdUntouched == pools = <<>> /\ claims = <<>> /\ now = 0
QbUntouched == ~question_bank.initialized /\ reputations = <<>>

BothNext ==
    \/ QbUntouched /\ RdNext
    \/ RdUntouched /\ QbNext

InitBoth ==
    /\ pools = <<>>
    /\ claims = <<>>
    /\ vault = <<>>
    /\ wallet = [u \in Users |-> [a \in {"SOL", "SplToken"} |-> InitialBalance]]
    /\ now = 0
    /\ overflow_checks \in BOOLEAN
    /\ question_bank = [initialized |-> FALSE]
    /\ questions = <<>>
    /\ reputations = <<>>
    /\ tournament_manager = [initialized |-> FALSE]
    /\ tournaments = <<>>
    /\ registrations = <<>>
    /\ token_accounts = <<>>
    /\ inflight = <<>>

SpecBoth == InitBoth /\ [][BothNext]_vars

----------------------------------------------------------------------------
\* Properties

\* the outcome r of a transaction holds the accounts as they are now
RdSame(r) ==
    /\ r.pools = pools /\ r.claims = claims
    /\ r.vault = vault /\ r.wallet = wallet
QbSame(r) ==
    /\ r.question_bank = question_bank /\ r.questions = questions
    /\ r.reputations = reputations

\* C1: in every reachable state every pool has distributed_rewards no
\* greater than total_rewards
C1_DistributedWithinTotal ==
    \A p \in DOMAIN pools :
        pools[p].distributed_rewards <= pools[p].total_rewards

\* C2: in every reachable state every claim record has amount_claimed no
\* greater than total_eligible; a recalculation never leaves total_eligible
\* below what the user has already claimed
C2_ClaimedWithinEligible ==
    \A k \in DOMAIN claims :
        claims[k].amount_claimed <= claims[k].total_eligible

\* C3: a user who has claimed, and whose total_eligible has not risen above
\* the amount claimed since, gets NothingToClaim from a further claim_rewards
\* on the active pool inside its claim window, and nothing moves
C3_SecondClaimNothingToClaim ==
    \A k \in DOMAIN claims :
        LET p == k[1]
            u == k[2]
            r == claim_rewards(u, p)
        IN  (/\ claims[k].amount_claimed > 0
             /\ claims[k].total_eligible <= claims[k].amount_claimed
             /\ pools[p].active
             /\ now >= pools[p].start_time /\ now <= pools[p].end_time)
            => (r.err = "NothingToClaim" /\ RdSame(r))

RECURSIVE SumClaimed(_, _)
\* the sum of amount_claimed over the claim records of pool p held by users
SumClaimed(p, users) ==
    IF users = {} THEN 0
    ELSE LET u == CHOOSE x \in users : TRUE
         IN  claims[<<p, u>>].amount_claimed + SumClaimed(p, users \ {u})

\* C4: for every pool the sum of amount_claimed over its claim records is
\* no greater than the pool's distributed_rewards
C4_ClaimedSumWithinDistributed ==
    \A p \in DOMAIN pools :
        SumClaimed(p, {k[2] : k \in {c \in DOMAIN claims : c[1] = p}})
            <= pools[p].distributed_rewards

\* the outcomes of the reward_distributor requests in the current state
RdAttempts ==
    {create_reward_pool(a, pd, f) :
        a \in Authorities, pd \in PoolDataInputs, f \in AmountInputs}
    \cup {fund_reward_pool(u, p, amt) :
        u \in Users, p \in PoolIds, amt \in AmountInputs}
    \cup {calculate_user_rewards(u, p, pd) :
        u \in Users, p \in PoolIds, pd \in PerformanceInputs}
    \cup {claim_rewards(u, p) : u \in Users, p \in PoolIds}
    \cup {update_distribution_criteria(u, p, c) :
        u \in Users, p \in PoolIds, c \in CriteriaInputs}
    \cup {close_reward_pool(u, p) : u \in Users, p \in PoolIds}

\* the outcomes of the question_bank requests in the current state
QbAttempts ==
    {initialize_question_bank(a) : a \in Callers}
    \cup {initialize_user_reputation(u) : u \in Members}
    \cup {submit_question(u, qd) : u \in Members, qd \in QuestionDataInputs}
    \cup {vote_on_question(u, q, t) :
        u \in Members, q \in QuestionInputs, t \in VoteTypes}
    \cup {finalize_question(u, q, id) :
        u \in Callers, q \in QuestionInputs, id \in QuestionInputs}
    \cup {update_reputation(u, a) : u \in Members, a \in ReputationActions}
    \cup {add_curator(u, c) : u \in Callers, c \in CuratorInputs}
    \cup {remove_curator(u, c) : u \in Callers, c \in CuratorInputs}

C6_VoteCountsMatchVoters ==
    \A q \in QuestionIds :
        Question(q).votes_approve + Question(q).votes_reject
            = VecLen(Question(q).voters)

\* a question with votes of both types
C6_Witness ==
    \E q \in QuestionIds :
        /\ Question(q).votes_approve >= 2
        /\ Question(q).votes_reject >= 1
        /\ VecLen(Question(q).voters) >= 3

\* C7: the submitter of a question is never among its voters, and a
\* vote_on_question by the submitter on the Pending question fails with
\* CannotVoteOnOwnQuestion and changes nothing
C7_NoSelfVote ==
    \A q \in QuestionIds :
        LET s == Question(q).submitter IN
        /\ ~Contains(Question(q).voters, s)
        /\ (Question(q).status = "Pending" /\ s \in DOMAIN reputations)
            => \A t \in VoteTypes :
                  LET r == vote_on_question(s, q, t) IN
                  r.err = "CannotVoteOnOwnQuestion" /\ QbSame(r)

\* a Pending question that others have voted on and its submitter may not
C7_Witness ==
    \E q \in QuestionIds :
        /\ Question(q).status = "Pending"
        /\ VecLen(Question(q).voters) >= 1
        /\ vote_on_question(Question(q).submitter, q, "Approve").err
              = "CannotVoteOnOwnQuestion"

\* C8: voters holds no identity twice; a vote_on_question by an identity
\* already in voters fails (with AlreadyVoted while the question is Pending)
\* and changes neither the counts, nor voters, nor the reputation; a vote
\* that succeeds is the voter's first on the question and awards +10 once
C8_NoDoubleVote ==
    \A q \in QuestionIds, u \in Members :
        /\ CopiesIn(u, Question(q).voters) <= 1
        /\ \A t \in VoteTypes :
              LET r == vote_on_question(u, q, t) IN
              /\ Contains(Question(q).voters, u)
                    => /\ r.err # "Ok" /\ QbSame(r)
                       /\ Question(q).status = "Pending" => r.err = "AlreadyVoted"
              /\ r.err = "Ok"
                    => /\ ~Contains(Question(q).voters, u)
                       /\ CopiesIn(u, r.questions[q + 1].voters) = 1
                       /\ r.reputations[u].reputation_score
                             = reputations[u].reputation_score + 10
                       /\ r.reputations[u].curation_votes
                             = reputations[u].curation_votes + 1

\* a voter of a Pending question who tries to vote again
C8_Witness ==
    \E q \in QuestionIds, u \in Members :
        /\ Question(q).status = "Pending"
        /\ Contains(Question(q).voters, u)
        /\ vote_on_question(u, q, "Reject").err = "AlreadyVoted"

\* every vote and every finalization requested on a question that is no
\* longer Pending fails and changes nothing; the error is QuestionNotPending
\* when the request gets as far as the status check
FinalizedRefuses ==
    \A q \in QuestionIds :
        Question(q).status # "Pending" =>
            /\ \A u \in Members \cap DOMAIN reputations, t \in VoteTypes :
                  LET r == vote_on_question(u, q, t) IN
                  r.err = "QuestionNotPending" /\ QbSame(r)
            /\ \A c \in Callers, id \in QuestionInputs :
                  LET r == finalize_question(c, q, id) IN
                  /\ r.err # "Ok" /\ QbSame(r)
                  /\ (Contains(question_bank.curators, c) /\ id = Question(q).id)
                        => r.err = "QuestionNotPending"

\* a step keeps every question, leaves a finalized question as it is and
\* moves a Pending one to Approved or Rejected at most
StatusOneWay ==
    \A q \in QuestionIds :
        /\ q + 1 <= Len(questions')
        /\ Question(q).status # "Pending" => questions'[q + 1] = questions[q + 1]
        /\ questions'[q + 1].status \in {Question(q).status, "Approved", "Rejected"}

\* C9: a question's status only moves from Pending to Approved or Rejected;
\* once it is Approved or Rejected its status, counts and voters never
\* change and every later vote_on_question and finalize_question fails with
\* QuestionNotPending
C9_FinalIsFinal == [](FinalizedRefuses) /\ [][StatusOneWay]_vars

\* a Rejected question
C9_Witness ==
    \E q \in QuestionIds :
        /\ Question(q).status = "Rejected"
        /\ VecLen(Question(q).voters) >= 5

\* C10: a question leaves Pending only with at least 5 votes: a curator's
\* finalize_question on a Pending question with fewer votes fails with
\* InsufficientVotes and changes nothing, and with 5 or more votes it
\* succeeds (3 approvals against 2 rejections with exactly 5 votes: Approved)
C10_QuorumOfFive ==
    \A q \in QuestionIds :
        LET question == Question(q)
            total_votes == question.votes_approve + question.votes_reject
        IN
        /\ question.status # "Pending" => total_votes >= 5
        /\ question.status = "Pending" =>
              \A c \in Callers :
                  LET r == finalize_question(c, q, question.id) IN
                  Contains(question_bank.curators, c) =>
                      IF total_votes < 5
                      THEN r.err = "InsufficientVotes" /\ QbSame(r)
                      ELSE /\ r.err = "Ok"
                           /\ r.questions[q + 1].status =
                                 IF question.votes_approve > question.votes_reject
                                 THEN "Approved" ELSE "Rejected"

\* a question approved by 3 votes against 2
C10_Witness ==
    \E q \in QuestionIds :
        /\ Question(q).status = "Approved"
        /\ Question(q).votes_approve = 3
        /\ Question(q).votes_reject = 2

----------------------------------------------------------------------------
\* question_bank with one question and enough members for an even number
\* of votes at the quorum: the submitter and six or more voters

NumTieMembers == 7
TieMembers == 1..NumTieMembers

\* the members are interchangeable: they register in the order of their numbers
TieRegister ==
    \E u \in TieMembers :
        LET r == initialize_user_reputation(u) IN
        /\ \A v \in 1..(u - 1) : v \in DOMAIN reputations
        /\ r.err = "Ok"
        /\ question_bank' = r.question_bank /\ questions' = r.questions
        /\ reputations' = r.reputations
        /\ UNCHANGED <<pools, claims, vault, wallet, now, overflow_checks, inflight,
                       tournament_manager, tournaments, registrations, token_accounts>>

TieSubmit ==
    \E u \in Submitters, qd \in QuestionDataInputs :
        LET r == submit_question(u, qd) IN
        /\ questions = <<>>
        /\ r.err = "Ok"
        /\ question_bank' = r.question_bank /\ questions' = r.questions
        /\ reputations' = r.reputations
        /\ UNCHANGED <<pools, claims, vault, wallet, now, overflow_checks, inflight,
                       tournament_manager, tournaments, registrations, token_accounts>>

TieVote ==
    \E u \in TieMembers, q \in QuestionInputs, t \in VoteTypes :
        LET r == vote_on_question(u, q, t) IN
        /\ r.err = "Ok"
        /\ question_bank' = r.question_bank /\ questions' = r.questions
        /\ reputations' = r.reputations
        /\ UNCHANGED <<pools, claims, vault, wallet, now, overflow_checks, inflight,
                       tournament_manager, tournaments, registrations, token_accounts>>

TieNext ==
    \/ InitializeQuestionBank
    \/ TieRegister
    \/ TieSubmit
    \/ TieVote
    \/ FinalizeQuestion
    \/ AddCurator
    \/ RemoveCurator

InitTie ==
    /\ question_bank = [initialized |-> FALSE]
    /\ questions = <<>>
    /\ reputations = <<>>
    /\ tournament_manager = [initialized |-> FALSE]
    /\ tournaments = <<>>
    /\ registrations = <<>>
    /\ token_accounts = <<>>
    /\ inflight = <<>>
    /\ pools = <<>>
    /\ claims = <<>>
    /\ vault = <<>>
    /\ wallet = [u \in Users |-> [a \in {"SOL", "SplToken"} |-> InitialBalance]]
    /\ now = 0
    /\ overflow_checks = TRUE

SpecTie == InitTie /\ [][TieNext]_vars

\* C11: a finalize_question that succeeds leaves the question Approved when
\* votes_approve > votes_reject at that moment and Rejected otherwise, a tie
\* included; so an Approved question has more approvals than rejections and
\* a Rejected one has not
C11_DecisionRule ==
    \A q \in QuestionIds :
        LET question == Question(q) IN
        /\ question.status = "Approved"
              => question.votes_approve > question.votes_reject
        /\ question.status = "Rejected"
              => question.votes_approve <= question.votes_reject
        /\ \A c \in Callers, id \in QuestionInputs :
              LET r == finalize_question(c, q, id) IN
              r.err = "Ok" =>
                  r.questions[q + 1].status =
                      IF question.votes_approve > question.votes_reject
                      THEN "Approved" ELSE "Rejected"

\* a question rejected on a tie of 3 against 3
C11_Witness ==
    \E q \in QuestionIds :
        /\ Question(q).status = "Rejected"
        /\ Question(q).votes_approve = 3
        /\ Question(q).votes_reject = 3

----------------------------------------------------------------------------
\* question_bank seen from the reputation ledger: registration, submissions
\* and the update_reputation instruction, which any caller may send for any
\* reputation record

MaxSubmissions == 3

RepSubmit ==
    \E u \in Submitters, qd \in QuestionDataInputs :
        LET r == submit_question(u, qd) IN
        /\ Len(questions) < MaxSubmissions
        /\ r.err = "Ok"
        /\ question_bank' = r.question_bank /\ questions' = r.questions
        /\ reputations' = r.reputations
        /\ UNCHANGED <<pools, claims, vault, wallet, now, overflow_checks, inflight,
                       tournament_manager, tournaments, registrations, token_accounts>>

RepNext ==
    \/ InitializeQuestionBank
    \/ InitializeUserReputation
    \/ RepSubmit
    \/ UpdateReputation

InitRep ==
    /\ question_bank = [initialized |-> FALSE]
    /\ questions = <<>>
    /\ reputations = <<>>
    /\ tournament_manager = [initialized |-> FALSE]
    /\ tournaments = <<>>
    /\ registrations = <<>>
    /\ token_accounts = <<>>
    /\ inflight = <<>>
    /\ pools = <<>>
    /\ claims = <<>>
    /\ vault = <<>>
    /\ wallet = [u \in Users |-> [a \in {"SOL", "SplToken"} |-> InitialBalance]]
    /\ now = 0
    /\ overflow_checks = TRUE

SpecRep == InitRep /\ [][RepNext]_vars

\* C12: a rejection penalty applied to a record whose reputation_score is at
\* least 10 leaves the score at least 10, whether it comes from
\* update_reputation with QuestionRejected or from a finalize_question that
\* ends in Rejected
C12_ReputationFloor ==
    \A u \in DOMAIN reputations :
        reputations[u].reputation_score >= 10 =>
            /\ update_reputation(u, "QuestionRejected")
                  .reputations[u].reputation_score >= 10
            /\ \A c \in Callers, q \in QuestionIds :
                  LET r == finalize_question(c, q, q) IN
                  (r.err = "Ok" /\ Question(q).submitter = u)
                      => r.reputations[u].reputation_score >= 10

\* a caller outside registry.curators gets UnauthorizedCurator from
\* finalize_question whatever the question and the id, and nothing changes;
\* a finalize_question that succeeds was sent by a curator
NonCuratorRefused ==
    \A q \in QuestionIds, c \in Callers, id \in QuestionInputs :
        LET r == finalize_question(c, q, id) IN
        /\ ~Contains(question_bank.curators, c)
              => (r.err = "UnauthorizedCurator" /\ QbSame(r))
        /\ r.err = "Ok" => Contains(question_bank.curators, c)

\* a step that takes a question out of Pending is a finalize_question of a
\* caller who is a curator before the step
LeavesPendingByCurator ==
    \A q \in QuestionIds :
        (Question(q).status = "Pending" /\ questions'[q + 1].status # "Pending")
            => \E c \in Callers :
                  LET r == finalize_question(c, q, Question(q).id) IN
                  /\ Contains(question_bank.curators, c)
                  /\ r.err = "Ok"
                  /\ questions' = r.questions
                  /\ reputations' = r.reputations
                  /\ question_bank' = r.question_bank

\* C13: a question leaves Pending only through a finalize_question whose
\* caller is in registry.curators at the time of the call; a caller who is
\* not a curator gets UnauthorizedCurator whatever the question's status and
\* vote counts, and nothing is changed
C13_OnlyCuratorsFinalize == [](NonCuratorRefused) /\ [][LeavesPendingByCurator]_vars

\* a Pending question with a quorum of votes that a non-curator may not
\* finalize while a curator may
C13_Witness ==
    \E q \in QuestionIds, c \in Callers :
        /\ Question(q).status = "Pending"
        /\ Question(q).votes_approve + Question(q).votes_reject >= 5
        /\ ~Contains(question_bank.curators, c)
        /\ finalize_question(c, q, q).err = "UnauthorizedCurator"
        /\ finalize_question(question_bank.authority, q, q).err = "Ok"

\* C14: vote_on_question returns the error of the first failing check in
\* the order pending check, self-vote check, duplicate check (the submitter
\* and an earlier voter get QuestionNotPending on a finalized question), and
\* a failing check leaves the question and the voter's reputation as they were
C14_VoteCheckOrder ==
    \A q \in QuestionIds, u \in Members \cap DOMAIN reputations, t \in VoteTypes :
        LET question == Question(q)
            r == vote_on_question(u, q, t)
        IN
        /\ r.err = IF question.status # "Pending" THEN "QuestionNotPending"
                   ELSE IF question.submitter = u THEN "CannotVoteOnOwnQuestion"
                   ELSE IF Contains(question.voters, u) THEN "AlreadyVoted"
                   ELSE "Ok"
        /\ r.err # "Ok" => QbSame(r)

\* a finalized question on which its submitter and one of its voters try to vote
C14_Witness ==
    \E q \in QuestionIds, u \in Members :
        /\ Question(q).status # "Pending"
        /\ Contains(Question(q).voters, u)
        /\ vote_on_question(u, q, "Approve").err = "QuestionNotPending"
        /\ vote_on_question(Question(q).submitter, q, "Approve").err
              = "QuestionNotPending"

\* the question ids are 0 .. total_questions - 1, each once; a
\* submit_question that succeeds creates the question with id
\* total_questions and adds 1 to the counter, one that fails changes nothing
IdsConsecutive ==
    question_bank.initialized =>
        /\ question_bank.total_questions = Len(questions)
        /\ \A i \in 1..Len(questions) : questions[i].id = i - 1
        /\ \A u \in Members, qd \in QuestionDataInputs :
              LET r == submit_question(u, qd) IN
              IF r.err = "Ok"
              THEN /\ Len(r.questions) = Len(questions) + 1
                   /\ r.questions[Len(r.questions)].id = question_bank.total_questions
                   /\ r.question_bank.total_questions
                         = question_bank.total_questions + 1
                   /\ \A i \in 1..Len(questions) : r.questions[i].id = questions[i].id
              ELSE QbSame(r)

\* a step does not lower total_questions and removes no question
TotalNeverDecreases ==
    /\ Len(questions') >= Len(questions)
    /\ (question_bank.initialized /\ question_bank'.initialized)
          => question_bank'.total_questions >= question_bank.total_questions

\* C15: question ids are unique and consecutive: each successful
\* submit_question creates the question with id = total_questions before
\* the call and increments total_questions by exactly 1, the set of ids is
\* {0, ..., total_questions-1} in every reachable state, total_questions
\* never decreases, and a failed submit_question creates nothing and leaves
\* the counter
C15_ConsecutiveIds == [](IdsConsecutive) /\ [][TotalNeverDecreases]_vars

\* three questions with ids 0, 1, 2 and a submission that is refused
C15_Witness ==
    /\ Len(questions) = 3
    /\ question_bank.total_questions = 3
    /\ \E u \in Submitters, qd \in QuestionDataInputs :
          submit_question(u, qd).err = "InvalidQuestionFormat"

\* C16: submit_question succeeds only for a submitter whose
\* reputation_score is at least 100; with valid question data and a lower
\* score it fails with InsufficientReputation, creates no question and
\* changes neither total_questions nor questions_submitted
C16_SubmitNeedsReputation ==
    question_bank.initialized =>
        \A u \in Members \cap DOMAIN reputations, qd \in QuestionDataInputs :
            LET r == submit_question(u, qd) IN
            /\ r.err = "Ok" => reputations[u].reputation_score >= 100
            /\ (reputations[u].reputation_score < 100 /\ QuestionData_valid(qd))
                  => (r.err = "InsufficientReputation" /\ QbSame(r))

\* a submitter whose question was rejected, left with a score below 100,
\* is refused a further submission
C16_Witness ==
    \E q \in QuestionIds, qd \in QuestionDataInputs :
        /\ Question(q).status = "Rejected"
        /\ reputations[Question(q).submitter].reputation_score < 100
        /\ submit_question(Question(q).submitter, qd).err = "InsufficientReputation"

\* the successful outcomes of the curation instructions that concern user u:
\* a submission or a vote by u, a finalization of a question u submitted
CurationOutcomes(u) ==
    {r \in {submit_question(u, qd) : qd \in QuestionDataInputs}
           \cup {vote_on_question(u, q, t) : q \in QuestionIds, t \in VoteTypes}
           \cup {finalize_question(c, q, id) :
                    c \in Callers,
                    q \in {x \in QuestionIds : Question(x).submitter = u},
                    id \in QuestionInputs} :
        r.err = "Ok"}

\* a step that changes the reputation record of u is one of the curation
\* outcomes that concern u
ChangedByCuration ==
    \A u \in DOMAIN reputations :
        reputations'[u] # reputations[u] =>
            \E r \in CurationOutcomes(u) :
                /\ reputations' = r.reputations
                /\ questions' = r.questions
                /\ question_bank' = r.question_bank

\* C17: a user's reputation record changes only as a side effect of a
\* successful submit_question, vote_on_question or finalize_question
\* concerning that user; no operation lets an arbitrary caller raise or
\* lower a chosen user's reputation
C17_ReputationOnlyByCuration == [][ChangedByCuration]_vars

\* the record of user u after update_reputation with action_type
Updated(u, action_type) == update_reputation(u, action_type).reputations[u]

\* C18: the reputation effect applied inside submit_question,
\* vote_on_question and finalize_question (approve, reject) is the effect of
\* update_reputation with QuestionSubmitted, VoteCast, QuestionApproved and
\* QuestionRejected on the same starting record
C18_OneEffectPerAction ==
    \A u \in Members \cap DOMAIN reputations :
        /\ \A qd \in QuestionDataInputs :
              LET r == submit_question(u, qd) IN
              r.err = "Ok" => r.reputations[u] = Updated(u, "QuestionSubmitted")
        /\ \A q \in QuestionIds, t \in VoteTypes :
              LET r == vote_on_question(u, q, t) IN
              r.err = "Ok" => r.reputations[u] = Updated(u, "VoteCast")
        /\ \A q \in QuestionIds, c \in Callers :
              LET r == finalize_question(c, q, q) IN
              (r.err = "Ok" /\ Question(q).submitter = u) =>
                  r.reputations[u] =
                      IF r.questions[q + 1].status = "Approved"
                      THEN Updated(u, "QuestionApproved")
                      ELSE Updated(u, "QuestionRejected")

\* the same statement without the submission: vote, approve and reject agree
C18_VoteApproveRejectAgree ==
    \A u \in Members \cap DOMAIN reputations :
        /\ \A q \in QuestionIds, t \in VoteTypes :
              LET r == vote_on_question(u, q, t) IN
              r.err = "Ok" => r.reputations[u] = Updated(u, "VoteCast")
        /\ \A q \in QuestionIds, c \in Callers :
              LET r == finalize_question(c, q, q) IN
              (r.err = "Ok" /\ Question(q).submitter = u) =>
                  r.reputations[u] =
                      IF r.questions[q + 1].status = "Approved"
                      THEN Updated(u, "QuestionApproved")
                      ELSE Updated(u, "QuestionRejected")

\* initialize_user_reputation creates the record of an identity without one,
\* with score 100 and counters 0, and touches no other record; for an
\* identity that has a record it fails and changes nothing
CreatedOnce ==
    \A u \in Members :
        LET r == initialize_user_reputation(u) IN
        IF u \in DOMAIN reputations
        THEN r.err # "Ok" /\ QbSame(r)
        ELSE /\ r.err = "Ok"
             /\ r.reputations[u] = [questions_submitted |-> 0,
                                    questions_approved |-> 0,
                                    curation_votes |-> 0,
                                    reputation_score |-> 100]
             /\ DOMAIN r.reputations = DOMAIN reputations \cup {u}
             /\ \A v \in DOMAIN reputations : r.reputations[v] = reputations[v]

\* a step removes no reputation record
RecordsKept == DOMAIN reputations \subseteq DOMAIN reputations'

\* C19: a UserReputation record is created once per identity with
\* reputation_score 100 and all counters 0; a second
\* initialize_user_reputation for that identity fails and does not reset
\* the score or the counters accumulated since
C19_ReputationCreatedOnce == [](CreatedOnce) /\ [][RecordsKept]_vars

\* an identity whose record has moved away from the starting values and
\* for whom initialize_user_reputation is refused
C19_Witness ==
    \E u \in DOMAIN reputations :
        /\ reputations[u].reputation_score # 100
        /\ reputations[u].curation_votes > 0
        /\ initialize_user_reputation(u).err = "AccountAlreadyInUse"

\* add_curator and remove_curator: a caller other than the authority gets
\* UnauthorizedAuthority, adding a member gets CuratorAlreadyExists,
\* removing a non-member gets CuratorNotFound, each with nothing changed;
\* curators holds no identity twice
CuratorCallsChecked ==
    question_bank.initialized =>
        /\ \A x \in Callers : CopiesIn(x, question_bank.curators) <= 1
        /\ \A c \in Callers, x \in Callers :
              LET a == add_curator(c, x)
                  d == remove_curator(c, x)
                  member == Contains(question_bank.curators, x)
              IN
              /\ a.err = IF c # question_bank.authority THEN "UnauthorizedAuthority"
                         ELSE IF member THEN "CuratorAlreadyExists"
                         ELSE "Ok"
              /\ a.err # "Ok" => QbSame(a)
              /\ a.err = "Ok" =>
                    a.question_bank.curators = question_bank.curators (+) SetToBag({x})
              /\ d.err = IF c # question_bank.authority THEN "UnauthorizedAuthority"
                         ELSE IF x = question_bank.authority THEN "CannotRemoveAuthority"
                         ELSE IF ~member THEN "CuratorNotFound"
                         ELSE "Ok"
              /\ d.err # "Ok" => QbSame(d)
              /\ d.err = "Ok" => ~Contains(d.question_bank.curators, x)

\* a step that changes the curator set of the registry is an add_curator or
\* a remove_curator sent by the authority
CuratorsChangedByAuthority ==
    (question_bank.initialized /\ question_bank'.curators # question_bank.curators)
        => \E x \in Callers :
              \E r \in {add_curator(question_bank.authority, x),
                        remove_curator(question_bank.authority, x)} :
                  /\ r.err = "Ok"
                  /\ question_bank' = r.question_bank

\* C20: the curator set changes only through add_curator or remove_curator
\* called by the registry authority; a call by another identity fails with
\* UnauthorizedAuthority, add_curator of a member with CuratorAlreadyExists,
\* remove_curator of a non-member with CuratorNotFound, each leaving the
\* set unchanged; curators never contains a duplicate
C20_CuratorSetByAuthority ==
    [](CuratorCallsChecked) /\ [][CuratorsChangedByAuthority]_vars

\* two curators: adding the second again, removing a non-member and a call
\* by a curator who is not the authority are all refused
C20_Witness ==
    /\ question_bank.initialized
    /\ VecLen(question_bank.curators) = 2
    /\ \E c \in Callers, x \in Callers, y \in Callers :
          /\ c # question_bank.authority
          /\ Contains(question_bank.curators, c)
          /\ add_curator(c, y).err = "UnauthorizedAuthority"
          /\ add_curator(question_bank.authority, x).err = "CuratorAlreadyExists"
          /\ remove_curator(question_bank.authority, y).err = "CuratorNotFound"

\* C21: once the registry is initialized its authority is a member of
\* curators in every reachable state; a remove_curator that names the
\* authority fails (with CannotRemoveAuthority when the authority sends it)
\* and changes nothing
C21_AuthorityIsCurator ==
    question_bank.initialized =>
        /\ Contains(question_bank.curators, question_bank.authority)
        /\ \A c \in Callers :
              LET r == remove_curator(c, question_bank.authority) IN
              /\ r.err # "Ok" /\ QbSame(r)
              /\ c = question_bank.authority => r.err = "CannotRemoveAuthority"

\* the authority, the only curator, is refused its own removal and can
\* finalize a question that has a quorum
C21_Witness ==
    /\ question_bank.initialized
    /\ VecLen(question_bank.curators) = 1
    /\ remove_curator(question_bank.authority, question_bank.authority).err
          = "CannotRemoveAuthority"
    /\ \E q \in QuestionIds :
          finalize_question(question_bank.authority, q, q).err = "Ok"

----------------------------------------------------------------------------
\* question_bank at the capacity of its accounts: one question, of the
\* longest or of a short text, more voters than the 50 that Question::SPACE
\* names and more curator candidates than the 20 that QuestionBank::SPACE names

NumCapMembers == 52
NumCapCurators == 21
CapMembers == 1..NumCapMembers
CapCuratorInputs == 2..NumCapCurators

CapQuestionData ==
    {[question_text_len |-> 500, option_len |-> 100, category_len |-> 50,
      difficulty |-> 1, correct_answer |-> 3],
     [question_text_len |-> 100, option_len |-> 10, category_len |-> 10,
      difficulty |-> 1, correct_answer |-> 3]}

\* the members are interchangeable: they register in the order of their numbers
CapRegister ==
    \E u \in CapMembers :
        LET r == initialize_user_reputation(u) IN
        /\ \A v \in 1..(u - 1) : v \in DOMAIN reputations
        /\ r.err = "Ok"
        /\ question_bank' = r.question_bank /\ questions' = r.questions
        /\ reputations' = r.reputations
        /\ UNCHANGED <<pools, claims, vault, wallet, now, overflow_checks, inflight,
                       tournament_manager, tournaments, registrations, token_accounts>>

\* the question is submitted when every member has registered
CapSubmit ==
    \E u \in Submitters, qd \in CapQuestionData :
        LET r == submit_question(u, qd) IN
        /\ questions = <<>>
        /\ DOMAIN reputations = CapMembers
        /\ r.err = "Ok"
        /\ question_bank' = r.question_bank /\ questions' = r.questions
        /\ reputations' = r.reputations
        /\ UNCHANGED <<pools, claims, vault, wallet, now, overflow_checks, inflight,
                       tournament_manager, tournaments, registrations, token_accounts>>

\* the voters are interchangeable: they vote in the order of their numbers
CapVote ==
    \E u \in CapMembers, q \in QuestionIds, t \in VoteTypes :
        LET r == vote_on_question(u, q, t) IN
        /\ \A v \in 1..(u - 1) :
              v = Question(q).submitter \/ Contains(Question(q).voters, v)
        /\ r.err = "Ok"
        /\ question_bank' = r.question_bank /\ questions' = r.questions
        /\ reputations' = r.reputations
        /\ UNCHANGED <<pools, claims, vault, wallet, now, overflow_checks, inflight,
                       tournament_manager, tournaments, registrations, token_accounts>>

\* the candidates are interchangeable: they are added in the order of their numbers
CapAddCurator ==
    \E u \in Authorities, c \in CapCuratorInputs :
        LET r == add_curator(u, c) IN
        /\ r.err = "Ok"
        /\ \A v \in 1..(c - 1) : Contains(question_bank.curators, v)
        /\ question_bank' = r.question_bank /\ questions' = r.questions
        /\ reputations' = r.reputations
        /\ UNCHANGED <<pools, claims, vault, wallet, now, overflow_checks, inflight,
                       tournament_manager, tournaments, registrations, token_accounts>>

CapNext ==
    \/ InitializeQuestionBank
    \/ CapRegister
    \/ CapSubmit
    \/ CapVote
    \/ CapAddCurator

InitCap ==
    /\ question_bank = [initialized |-> FALSE]
    /\ questions = <<>>
    /\ reputations = <<>>
    /\ tournament_manager = [initialized |-> FALSE]
    /\ tournaments = <<>>
    /\ registrations = <<>>
    /\ token_accounts = <<>>
    /\ inflight = <<>>
    /\ pools = <<>>
    /\ claims = <<>>
    /\ vault = <<>>
    /\ wallet = [u \in Users |-> [a \in {"SOL", "SplToken"} |-> InitialBalance]]
    /\ now = 0
    /\ overflow_checks = TRUE

SpecCap == InitCap /\ [][CapNext]_vars

\* C22: curators never holds more than 20 identities and voters never more
\* than 50; an add_curator or a vote_on_question on a full collection is
\* rejected and leaves the collection, the vote counters and the reputation
\* record unchanged
C22_WithinCapacity ==
    question_bank.initialized =>
        /\ VecLen(question_bank.curators) <= 20
        /\ VecLen(question_bank.curators) = 20 =>
              \A c \in CapCuratorInputs :
                  LET r == add_curator(question_bank.authority, c) IN
                  r.err # "Ok" /\ QbSame(r)
        /\ \A q \in QuestionIds :
              /\ VecLen(Question(q).voters) <= 50
              /\ VecLen(Question(q).voters) = 50 =>
                    \A u \in CapMembers, t \in VoteTypes :
                        LET r == vote_on_question(u, q, t) IN
                        r.err # "Ok" /\ QbSame(r)

----------------------------------------------------------------------------
\* question_bank with several questions of one submitter, each voted on and
\* finalized on its own

NumCountQuestions == 2

CountSubmit ==
    \E u \in Submitters, qd \in QuestionDataInputs :
        LET r == submit_question(u, qd) IN
        /\ Len(questions) < NumCountQuestions
        /\ r.err = "Ok"
        /\ question_bank' = r.question_bank /\ questions' = r.questions
        /\ reputations' = r.reputations
        /\ UNCHANGED <<pools, claims, vault, wallet, now, overflow_checks, inflight,
                       tournament_manager, tournaments, registrations, token_accounts>>

\* the voters are interchangeable: they vote in the order of their numbers
CountVote ==
    \E u \in Members, q \in QuestionIds, t \in VoteTypes :
        LET r == vote_on_question(u, q, t) IN
        /\ \A v \in 1..(u - 1) :
              v = Question(q).submitter \/ Contains(Question(q).voters, v)
        /\ r.err = "Ok"
        /\ question_bank' = r.question_bank /\ questions' = r.questions
        /\ reputations' = r.reputations
        /\ UNCHANGED <<pools, claims, vault, wallet, now, overflow_checks, inflight,
                       tournament_manager, tournaments, registrations, token_accounts>>

CountFinalize ==
    \E u \in Callers, q \in QuestionIds :
        LET r == finalize_question(u, q, q) IN
        /\ r.err = "Ok"
        /\ question_bank' = r.question_bank /\ questions' = r.questions
        /\ reputations' = r.reputations
        /\ UNCHANGED <<pools, claims, vault, wallet, now, overflow_checks, inflight,
                       tournament_manager, tournaments, registrations, token_accounts>>

CountNext ==
    \/ InitializeQuestionBank
    \/ InitializeUserReputation
    \/ CountSubmit
    \/ CountVote
    \/ CountFinalize
    \/ AddCurator
    \/ RemoveCurator

InitCount ==
    /\ question_bank = [initialized |-> FALSE]
    /\ questions = <<>>
    /\ reputations = <<>>
    /\ tournament_manager = [initialized |-> FALSE]
    /\ tournaments = <<>>
    /\ registrations = <<>>
    /\ token_accounts = <<>>
    /\ inflight = <<>>
    /\ pools = <<>>
    /\ claims = <<>>
    /\ vault = <<>>
    /\ wallet = [u \in Users |-> [a \in {"SOL", "SplToken"} |-> InitialBalance]]
    /\ now = 0
    /\ overflow_checks = TRUE

SpecCount == InitCount /\ [][CountNext]_vars

ApprovedQuestions == {q \in QuestionIds : Question(q).status = "Approved"}

\* the outcomes of every request other than finalize_question in the current state
OtherThanFinalize ==
    {initialize_user_reputation(u) : u \in Members}
    \cup {submit_question(u, qd) : u \in Members, qd \in QuestionDataInputs}
    \cup {vote_on_question(u, q, t) :
        u \in Members, q \in QuestionIds, t \in VoteTypes}
    \cup {update_reputation(u, a) : u \in Members, a \in ReputationActions}
    \cup {add_curator(u, c) : u \in Callers, c \in CuratorInputs}
    \cup {remove_curator(u, c) : u \in Callers, c \in CuratorInputs}

\* active_questions is the number of Approved questions and at most
\* total_questions; no request other than finalize_question changes it, and
\* finalize_question adds one exactly when it approves
ActiveIsApprovedCount ==
    question_bank.initialized =>
        /\ question_bank.active_questions = Cardinality(ApprovedQuestions)
        /\ question_bank.active_questions <= question_bank.total_questions
        /\ \A r \in OtherThanFinalize :
              r.question_bank.active_questions = question_bank.active_questions
        /\ \A u \in Callers, q \in QuestionIds :
              LET r == finalize_question(u, q, q) IN
              r.question_bank.active_questions =
                  IF r.err = "Ok" /\ r.questions[q + 1].status = "Approved"
                  THEN question_bank.active_questions + 1
                  ELSE question_bank.active_questions

\* a step changes active_questions only by finalizing a question as Approved,
\* and then by exactly one
ActiveChangedByFinalize ==
    (question_bank.initialized
        /\ question_bank'.active_questions # question_bank.active_questions) =>
        \E u \in Callers, q \in QuestionIds :
            LET r == finalize_question(u, q, q) IN
            /\ r.err = "Ok"
            /\ question_bank' = r.question_bank /\ questions' = r.questions
            /\ Question(q).status = "Pending"
            /\ questions'[q + 1].status = "Approved"
            /\ question_bank'.active_questions = question_bank.active_questions + 1

\* C23: active_questions is changed only by finalize_question, by +1 exactly
\* when a question becomes Approved; it equals the number of Approved
\* questions and is at most total_questions
C23_ActiveCountsApproved ==
    [](ActiveIsApprovedCount) /\ [][ActiveChangedByFinalize]_vars

\* both questions of the registry have been approved, a third state of the
\* counter after 0 and 1
C23_Witness ==
    /\ question_bank.initialized
    /\ Cardinality(ApprovedQuestions) = 2
    /\ question_bank.active_questions = 2

----------------------------------------------------------------------------
\* a create_reward_pool that succeeds passed every validation, wrote a pool
\* that is active with nothing distributed, and touched no existing pool
CreateValidated ==
    \A a \in Users, pd \in PoolDataInputs, f \in AmountInputs :
        LET r == create_reward_pool(a, pd, f) IN
        r.err = "Ok" =>
            /\ pd.name_len <= 50
            /\ pd.start_time > now
            /\ pd.end_time > pd.start_time
            /\ pd.total_rewards > 0
            /\ pd.id \notin DOMAIN pools
            /\ r.pools[pd.id].active
            /\ r.pools[pd.id].distributed_rewards = 0
            /\ r.pools[pd.id].total_rewards = pd.total_rewards
            /\ r.pools[pd.id].end_time > r.pools[pd.id].start_time
            /\ \A p \in DOMAIN pools : r.pools[p] = pools[p]

\* a create_reward_pool with the id of an existing pool is refused and
\* changes nothing
CreateOnce ==
    \A a \in Users, pd \in PoolDataInputs, f \in AmountInputs :
        pd.id \in DOMAIN pools =>
            LET r == create_reward_pool(a, pd, f) IN
            r.err = "AccountAlreadyInUse" /\ RdSame(r)

WindowsOrdered ==
    \A p \in DOMAIN pools : pools[p].end_time > pools[p].start_time

\* a pool, once there, stays, with the window and the authority it was
\* created with; a pool that appears is active with nothing distributed
PoolsCreatedOnce ==
    /\ DOMAIN pools \subseteq DOMAIN pools'
    /\ \A p \in DOMAIN pools :
          /\ pools'[p].start_time = pools[p].start_time
          /\ pools'[p].end_time = pools[p].end_time
          /\ pools'[p].authority = pools[p].authority
          /\ pools'[p].id = pools[p].id
    /\ \A p \in DOMAIN pools' \ DOMAIN pools :
          /\ pools'[p].active
          /\ pools'[p].distributed_rewards = 0
          /\ pools'[p].start_time > now

\* C24: create_reward_pool succeeds only for a name of at most 50 bytes,
\* start_time > now, end_time > start_time, total_rewards > 0 and an unused
\* id; every pool has end_time > start_time, starts active with
\* distributed_rewards = 0, and is never re-created or overwritten
C24_CreateValidated ==
    [](CreateValidated /\ CreateOnce /\ WindowsOrdered) /\ [][PoolsCreatedOnce]_vars

\* a pool that has paid out exists and a create_reward_pool with its id and
\* otherwise valid data is refused
C24_Witness ==
    \E p \in DOMAIN pools :
        /\ pools[p].distributed_rewards > 0
        /\ \E pd \in ValidPoolData :
              /\ pd.id = p
              /\ pd.total_rewards # pools[p].total_rewards
              /\ create_reward_pool(pools[p].authority, pd, 0).err = "AccountAlreadyInUse"

----------------------------------------------------------------------------
NftPools == {p \in DOMAIN pools : pools[p].reward_type = "NFT"}

\* creating an NFT pool with funding, funding an NFT pool and claiming from
\* one are refused and change nothing; the funding errors are those of a
\* request that is valid otherwise (unused id and valid data at creation,
\* active pool and amount > 0 at funding)
NftMovesNothing ==
    /\ \A a \in Users, pd \in ValidPoolData, f \in AmountInputs :
          (pd.reward_type = "NFT" /\ f > 0
              /\ pd.id \notin DOMAIN pools /\ pd.start_time > now) =>
              LET r == create_reward_pool(a, pd, f) IN
              r.err = "NFTFundingUnsupported" /\ RdSame(r)
    /\ \A p \in NftPools :
          /\ pools[p].distributed_rewards = 0
          /\ vault[p] = 0
          /\ \A u \in Users, amt \in AmountInputs :
                LET r == fund_reward_pool(u, p, amt) IN
                /\ r.err # "Ok" /\ RdSame(r)
                /\ (pools[p].active /\ amt > 0) => r.err = "NFTFundingUnsupported"
          /\ \A u \in Users :
                LET r == claim_rewards(u, p) IN
                r.err # "Ok" /\ RdSame(r)

NftTotalConstant ==
    \A p \in NftPools :
        /\ pools'[p].reward_type = "NFT"
        /\ pools'[p].total_rewards = pools[p].total_rewards

\* C25: for an NFT pool create_reward_pool with initial_funding > 0 fails
\* with NFTFundingUnsupported and creates no pool, fund_reward_pool fails
\* (with NFTFundingUnsupported when the request is valid otherwise),
\* claim_rewards fails, total_rewards keeps its creation value and
\* distributed_rewards stays 0
C25_NftMovesNothing ==
    [](NftMovesNothing) /\ [][NftTotalConstant]_vars

\* an open NFT pool with an eligible user whose claim and whose funding are
\* refused as unsupported
C25_Witness ==
    \E p \in NftPools, u \in Users :
        /\ <<p, u>> \in DOMAIN claims
        /\ claims[<<p, u>>].total_eligible > 0
        /\ claim_rewards(u, p).err = "NFTClaimUnsupported"
        /\ fund_reward_pool(u, p, FundingUnit).err = "NFTFundingUnsupported"

----------------------------------------------------------------------------
\* one performance record per rule of PerformanceData::validate
InvalidPerformanceInputs ==
    LET ok == [score |-> 100, completion_time |-> 60, staking_duration |-> 86400,
               achievements_unlocked |-> 1000, random_seed |-> 5]
    IN  {[ok EXCEPT !.score = 101],
         [ok EXCEPT !.completion_time = -1],
         [ok EXCEPT !.staking_duration = -1],
         [ok EXCEPT !.achievements_unlocked = 1001]}

InWindow(pool) == pool.start_time <= now /\ now <= pool.end_time

\* what the checks at the head of calculate_user_rewards and claim_rewards
\* answer for an outcome r on the pool
WindowChecked(r, pool) ==
    /\ r.err = "Ok" => (pool.active /\ InWindow(pool))
    /\ ~pool.active => r.err = "PoolNotActive"
    /\ (pool.active /\ now < pool.start_time) => r.err = "ClaimPeriodNotStarted"
    /\ (pool.active /\ now > pool.end_time) => r.err = "ClaimPeriodEnded"
    /\ (pool.active /\ InWindow(pool)) =>
          r.err \notin {"PoolNotActive", "ClaimPeriodNotStarted", "ClaimPeriodEnded"}
    /\ r.err # "Ok" => RdSame(r)

\* C26: calculate_user_rewards and claim_rewards take effect only on an
\* active pool at start_time <= now <= end_time, both bounds included; on an
\* inactive pool they fail with PoolNotActive, before the window with
\* ClaimPeriodNotStarted, after it with ClaimPeriodEnded, and
\* calculate_user_rewards on an open pool with invalid performance data
\* fails with InvalidPerformanceData; a failure changes no claim record
C26_WindowChecked ==
    \A p \in DOMAIN pools, u \in Users :
        /\ \A pd \in PerformanceInputs \cup InvalidPerformanceInputs :
              LET r == calculate_user_rewards(u, p, pd) IN
              /\ WindowChecked(r, pools[p])
              /\ r.err = "Ok" => PerformanceData_validate(pd)
              /\ (pools[p].active /\ InWindow(pools[p])
                      /\ ~PerformanceData_validate(pd)) =>
                    r.err = "InvalidPerformanceData"
              /\ (pools[p].active /\ InWindow(pools[p])
                      /\ PerformanceData_validate(pd)) =>
                    r.err \in {"Ok", "Panic"}
        /\ <<p, u>> \in DOMAIN claims =>
              WindowChecked(claim_rewards(u, p), pools[p])

\* a claim was paid at the last instant of the window and another
\* calculation is still accepted at that instant
C26_Witness ==
    \E p \in DOMAIN pools, u \in Users :
        /\ <<p, u>> \in DOMAIN claims
        /\ pools[p].active
        /\ now = pools[p].end_time
        /\ claims[<<p, u>>].last_claim_time = now
        /\ claims[<<p, u>>].amount_claimed > 0
        /\ \E pd \in PerformanceInputs : calculate_user_rewards(u, p, pd).err = "Ok"

----------------------------------------------------------------------------
\* C27: whenever total_eligible - amount_claimed is zero or negative,
\* claim_rewards on the open pool fails with NothingToClaim and moves and
\* writes nothing, and the claimable amount reported is never positive
C27_NothingToClaimWhenNotPositive ==
    \A k \in DOMAIN claims :
        LET p == k[1]
            u == k[2]
            r == claim_rewards(u, p)
            g == get_claimable_amount(u, p)
        IN  (/\ claims[k].total_eligible <= claims[k].amount_claimed
             /\ pools[p].active /\ InWindow(pools[p]))
            => /\ r.err = "NothingToClaim" /\ RdSame(r)
               /\ g.err = "Ok" /\ g.value = 0

----------------------------------------------------------------------------
\* C28: close_reward_pool succeeds only for the pool's authority at
\* now > end_time; another caller gets UnauthorizedAuthority, the authority
\* at now <= end_time gets PoolStillActive, both leaving pool and vault
\* unchanged; a success moves exactly total_rewards - distributed_rewards
\* from the vault to the authority and sets active to false
C28_CloseChecked ==
    \A p \in DOMAIN pools, u \in Users :
        LET r == close_reward_pool(u, p)
            pool == pools[p]
            remaining == pool.total_rewards - pool.distributed_rewards
        IN  /\ r.err = "Ok" => (u = pool.authority /\ now > pool.end_time)
            /\ u # pool.authority =>
                  (r.err = "UnauthorizedAuthority" /\ RdSame(r))
            /\ (u = pool.authority /\ now <= pool.end_time) =>
                  (r.err = "PoolStillActive" /\ RdSame(r))
            /\ r.err = "Ok" =>
                  /\ ~r.pools[p].active
                  /\ r.vault[p] = vault[p] - remaining
                  /\ pool.reward_type # "NFT" =>
                        r.wallet[u][pool.reward_type]
                            = wallet[u][pool.reward_type] + remaining

----------------------------------------------------------------------------
ClosedPools == {p \in DOMAIN pools : ~pools[p].active}

\* on a closed pool every fund_reward_pool, calculate_user_rewards and
\* claim_rewards fails and changes nothing
ClosedRefuses ==
    \A p \in ClosedPools, u \in Users :
        /\ \A amt \in AmountInputs :
              LET r == fund_reward_pool(u, p, amt) IN
              r.err = "PoolNotActive" /\ RdSame(r)
        /\ \A pd \in PerformanceInputs :
              LET r == calculate_user_rewards(u, p, pd) IN
              r.err = "PoolNotActive" /\ RdSame(r)
        /\ LET r == claim_rewards(u, p) IN
              r.err \in {"PoolNotActive", "AccountNotInitialized"} /\ RdSame(r)

\* a closed pool stays closed, with its totals and its claim records
ClosedStays ==
    \A p \in ClosedPools :
        /\ p \in DOMAIN pools'
        /\ ~pools'[p].active
        /\ pools'[p].total_rewards = pools[p].total_rewards
        /\ pools'[p].distributed_rewards = pools[p].distributed_rewards
        /\ \A u \in Users :
              /\ (<<p, u>> \in DOMAIN claims') = (<<p, u>> \in DOMAIN claims)
              /\ <<p, u>> \in DOMAIN claims => claims'[<<p, u>>] = claims[<<p, u>>]

\* C29: once close_reward_pool has succeeded on a pool, active is false in
\* every later state, every later fund_reward_pool, calculate_user_rewards
\* and claim_rewards on it fails, and its total_rewards, distributed_rewards
\* and claim records never change again
C29_ClosedForGood ==
    [](ClosedRefuses) /\ [][ClosedStays]_vars

\* a pool that paid a claim was closed and emptied, and a funding and a
\* further claim on it are refused
C29_Witness ==
    \E p \in ClosedPools, u \in Users :
        /\ <<p, u>> \in DOMAIN claims
        /\ claims[<<p, u>>].amount_claimed > 0
        /\ vault[p] = 0
        /\ wallet[u][pools[p].reward_type] >= FundingUnit
        /\ fund_reward_pool(u, p, FundingUnit).err = "PoolNotActive"
        /\ claim_rewards(u, p).err = "PoolNotActive"

----------------------------------------------------------------------------
\* C30: update_distribution_criteria succeeds only for the pool's authority
\* at a time strictly before start_time; another caller gets
\* UnauthorizedAuthority, the authority from start_time onward gets
\* CannotUpdateActivePool, and a refusal leaves the pool unchanged
C30_CriteriaUpdateChecked ==
    \A p \in DOMAIN pools, u \in Users, c \in CriteriaInputs :
        LET r == update_distribution_criteria(u, p, c)
            pool == pools[p]
        IN  /\ r.err = "Ok" => (u = pool.authority /\ now < pool.start_time)
            /\ u # pool.authority =>
                  (r.err = "UnauthorizedAuthority" /\ RdSame(r))
            /\ (u = pool.authority /\ now >= pool.start_time) =>
                  (r.err = "CannotUpdateActivePool" /\ RdSame(r))

\* a step changes a pool's distribution_criteria only before start_time and
\* as update_distribution_criteria by the authority does; from start_time
\* onward the criterion is constant
CriteriaChangedBeforeStart ==
    \A p \in DOMAIN pools :
        pools'[p].distribution_criteria # pools[p].distribution_criteria =>
            /\ now < pools[p].start_time
            /\ \E c \in CriteriaInputs :
                  LET r == update_distribution_criteria(pools[p].authority, p, c) IN
                  r.err = "Ok" /\ pools' = r.pools

C30_CriteriaConstantFromStart == [][CriteriaChangedBeforeStart]_vars

----------------------------------------------------------------------------
\* a calculate_user_rewards that succeeds returns what it writes to
\* total_eligible, the same for every user whatever the user has claimed,
\* and that is the distribution formula of the pool's total_rewards, its
\* criterion and the performance data
CalculationOfPoolAndData ==
    \A p \in DOMAIN pools, u \in Users, pd \in PerformanceInputs :
        LET r == calculate_user_rewards(u, p, pd) IN
        r.err = "Ok" =>
            /\ r.ret = r.claims[<<p, u>>].total_eligible
            /\ r.ret = calculated_reward(
                           [total_rewards |-> pools[p].total_rewards,
                            distribution_criteria |-> pools[p].distribution_criteria],
                           pd).value
            /\ \A v \in Users :
                  LET t == calculate_user_rewards(v, p, pd) IN
                  t.err = "Ok" /\ t.ret = r.ret
            /\ r.pools = pools /\ r.vault = vault /\ r.wallet = wallet
            /\ \A k \in DOMAIN claims :
                  /\ k # <<p, u>> => r.claims[k] = claims[k]
                  /\ r.claims[k].amount_claimed = claims[k].amount_claimed

\* across a step that leaves the pool's total_rewards and criterion as they
\* are (a claim, another calculation, a tick of the clock), a calculation
\* that is accepted before and after returns the same value; repeated right
\* after itself it leaves the claim records as the first call left them
CalculationRepeats ==
    \A p \in DOMAIN pools, u \in Users, pd \in PerformanceInputs :
        LET r == calculate_user_rewards(u, p, pd) IN
        (/\ r.err = "Ok"
         /\ calculate_user_rewards(u, p, pd)'.err = "Ok"
         /\ pools'[p].total_rewards = pools[p].total_rewards
         /\ pools'[p].distribution_criteria = pools[p].distribution_criteria) =>
            /\ calculate_user_rewards(u, p, pd)'.ret = r.ret
            /\ claims' = r.claims => calculate_user_rewards(u, p, pd)'.claims = claims'

\* C31: two calculate_user_rewards for the same pool and user with the same
\* performance data and an unchanged pool return the same value and leave
\* the same total_eligible, whatever happened to amount_claimed in between;
\* the result depends only on total_rewards, distribution_criteria and the
\* performance data
C31_CalculationIdempotent ==
    [](CalculationOfPoolAndData) /\ [][CalculationRepeats]_vars

\* a user who has been paid has the calculation repeated with the data that
\* gave the eligibility on record
C31_Witness ==
    \E k \in DOMAIN claims, pd \in PerformanceInputs :
        LET r == calculate_user_rewards(k[2], k[1], pd) IN
        /\ claims[k].amount_claimed > 0
        /\ r.err = "Ok"
        /\ r.ret > 0
        /\ r.ret = claims[k].total_eligible

----------------------------------------------------------------------------
\* C32: claim_rewards, whether it succeeds or fails, leaves total_eligible
\* of the record as it was; a success adds the claimable amount to
\* amount_claimed and to the pool's distributed_rewards, sets
\* last_claim_time, moves the amount from the vault to the user, and leaves
\* every other claim record, the pool's total_rewards and every other field
\* and balance untouched
C32_ClaimFrame ==
    \A k \in DOMAIN claims :
        LET p == k[1]
            u == k[2]
            r == claim_rewards(u, p)
            asset == pools[p].reward_type
            claimable == Wrap(claims[k].total_eligible - claims[k].amount_claimed)
        IN  /\ DOMAIN r.claims = DOMAIN claims
            /\ r.claims[k].total_eligible = claims[k].total_eligible
            /\ r.err # "Ok" => RdSame(r)
            /\ r.err = "Ok" =>
                  /\ claimable > 0
                  /\ r.claims[k] =
                        [claims[k] EXCEPT
                            !.amount_claimed = Wrap(@ + claimable),
                            !.last_claim_time = now]
                  /\ \A j \in DOMAIN claims : j # k => r.claims[j] = claims[j]
                  /\ r.pools =
                        [pools EXCEPT
                            ![p].distributed_rewards = Wrap(@ + claimable)]
                  /\ r.vault = [vault EXCEPT ![p] = @ - claimable]
                  /\ r.wallet = [wallet EXCEPT ![u][asset] = @ + claimable]

\* two users hold records on one pool and one of them, partly paid
\* already, can claim again
C32_Witness ==
    \E k \in DOMAIN claims, j \in DOMAIN claims :
        /\ j # k /\ j[1] = k[1]
        /\ claims[k].amount_claimed > 0
        /\ claims[j].total_eligible > 0
        /\ claim_rewards(k[2], k[1]).err = "Ok"

----------------------------------------------------------------------------
\* the distribution formulas on their own: one open pool of any criterion
\* and of a small, a round or the largest total, and performance data up to
\* the largest values that PerformanceData::validate accepts

\* the longest staking duration tried, in days (the word holds U64_MAX)
MaxStakingDays == 2 * U64_MOD

FormulaTotals == {1, 999, 1000, 3650, U64_MAX}

\* every score band against every completion time, then the staking
\* durations and the achievement counts one at a time
FormulaPerformance ==
    [score : {0, 50, 51, 75, 76, 90, 91, 99, 100},
     completion_time : {0, 59, 60, 3600, 7140, 7200, 86400},
     staking_duration : {0},
     achievements_unlocked : {0},
     random_seed : {5}]
    \cup
    [score : {100},
     completion_time : {60},
     staking_duration : {86399, 86400, 40 * 86400, MaxStakingDays * 86400},
     achievements_unlocked : {0},
     random_seed : {5, 50}]
    \cup
    [score : {100},
     completion_time : {60},
     staking_duration : {0},
     achievements_unlocked : {1, 20, 21, 1000},
     random_seed : {5, 50}]

\* the pool as create_reward_pool(pool_data, 0) left it, at its start_time
InitCalc ==
    /\ \E t \in FormulaTotals, c \in DistributionTypes :
          pools = <<[id |-> 1, authority |-> 1, total_rewards |-> t,
                     distributed_rewards |-> 0, reward_type |-> "SOL",
                     token_mint |-> TRUE, distribution_criteria |-> c,
                     start_time |-> 1, end_time |-> 2, active |-> TRUE]>>
    /\ claims = <<>>
    /\ vault = <<0>>
    /\ wallet = [u \in Users |-> [a \in {"SOL", "SplToken"} |-> InitialBalance]]
    /\ now = 1
    /\ overflow_checks \in BOOLEAN
    /\ question_bank = [initialized |-> FALSE]
    /\ questions = <<>>
    /\ reputations = <<>>
    /\ tournament_manager = [initialized |-> FALSE]
    /\ tournaments = <<>>
    /\ registrations = <<>>
    /\ token_accounts = <<>>
    /\ inflight = <<>>

CalcStep ==
    \E u \in Users, p \in PoolIds, pd \in FormulaPerformance :
        LET r == calculate_user_rewards(u, p, pd) IN
        /\ r.err = "Ok"
        /\ pools' = r.pools /\ claims' = r.claims
        /\ vault' = r.vault /\ wallet' = r.wallet
        /\ UNCHANGED <<now, overflow_checks, question_bank, questions, reputations,
                     inflight,
                       tournament_manager, tournaments, registrations, token_accounts>>

CalcNext == CalcStep

SpecCalc == InitCalc /\ [][CalcNext]_vars

\* the per-user cap of a criterion, as a fraction of total_rewards
PayoutCap(criterion, total_rewards) ==
    IF criterion = "AchievementBased" THEN total_rewards \div 5
    ELSE total_rewards \div 10

\* the formula of a criterion before the cap, in unbounded integers
Uncapped(criterion, total_rewards, pd) ==
    CASE criterion = "PerformanceBased" ->
            ((total_rewards \div 1000) * performance_multiplier(pd.score)
                * time_bonus(pd.completion_time)) \div 100
      [] criterion = "StakingRewards" ->
            (total_rewards \div 365) * (pd.staking_duration \div 86400)
      [] criterion = "AchievementBased" ->
            (total_rewards \div 100) * pd.achievements_unlocked

CappedCriteria == {"PerformanceBased", "StakingRewards", "AchievementBased"}

\* C33: for every pool and every valid performance data calculate_user_rewards
\* writes to total_eligible the smaller of the formula's value and the cap
\* (total_rewards / 10 for PerformanceBased and StakingRewards,
\* total_rewards / 5 for AchievementBased), also for the largest accepted
\* staking durations and achievement counts
C33_PayoutCapped ==
    \A p \in DOMAIN pools, u \in Users, pd \in FormulaPerformance :
        LET r == calculate_user_rewards(u, p, pd)
            c == pools[p].distribution_criteria
            t == pools[p].total_rewards
        IN  c \in CappedCriteria =>
                /\ r.err = "Ok"
                /\ r.claims[<<p, u>>].total_eligible <= PayoutCap(c, t)
                /\ r.claims[<<p, u>>].total_eligible
                       = Min(Uncapped(c, t, pd), PayoutCap(c, t))

\* whatever the build, a value that is written is within the cap
C33_WrittenWithinCap ==
    \A p \in DOMAIN pools, k \in DOMAIN claims :
        pools[p].distribution_criteria \in CappedCriteria =>
            claims[k].total_eligible
                <= PayoutCap(pools[p].distribution_criteria, pools[p].total_rewards)

----------------------------------------------------------------------------
\* the multiplier m and the time bonus b as the specification tabulates them
SpecMultiplier(score) ==
    CASE score \in 0..50 -> 1
      [] score \in 51..75 -> 2
      [] score \in 76..90 -> 3
      [] score \in 91..99 -> 4
      [] score = 100 -> 5

SpecTimeBonus(completion_time) ==
    IF completion_time = 0 THEN 1
    ELSE Max(1, 120 - completion_time \div 60)

\* C34: the PerformanceBased amount is
\* min(((total_rewards / 1000) * m * b) / 100, total_rewards / 10) with each
\* division truncating where it stands; for total_rewards = 1000, score = 100
\* and completion_time = 0 it is 0
C34_PerformanceFormula ==
    /\ \A p \in DOMAIN pools, u \in Users, pd \in FormulaPerformance :
          LET r == calculate_user_rewards(u, p, pd)
              t == pools[p].total_rewards
          IN  pools[p].distribution_criteria = "PerformanceBased" =>
                  /\ r.err = "Ok"
                  /\ r.ret = Min(((t \div 1000) * SpecMultiplier(pd.score)
                                     * SpecTimeBonus(pd.completion_time)) \div 100,
                                 t \div 10)
                  /\ r.claims[<<p, u>>].total_eligible = r.ret
    /\ \A pd \in FormulaPerformance :
          (pd.score = 100 /\ pd.completion_time = 0) =>
              calculate_performance_rewards(1000, pd)
                  = [ok |-> TRUE, value |-> 0]

\* the scenario of the specification: a PerformanceBased pool of 1000, a
\* perfect score in no time, and an eligibility of 0 on record
C34_Witness ==
    \E p \in DOMAIN pools, u \in Users, pd \in FormulaPerformance :
        /\ pools[p].distribution_criteria = "PerformanceBased"
        /\ pools[p].total_rewards = 1000
        /\ pd.score = 100 /\ pd.completion_time = 0
        /\ <<p, u>> \in DOMAIN claims
        /\ claims[<<p, u>>].total_eligible = 0
        /\ calculate_user_rewards(u, p, pd).ret = 0

----------------------------------------------------------------------------
\* Transactions in flight.  A transaction names the accounts it writes
\* (#[account(mut)]); the runtime runs it only while no running transaction
\* writes one of them, loads the accounts into the handler's copies, runs
\* the handler step by step and stores the copies when the handler returns.

\* the requests that race
NumRacers == 2
Racers == 1..NumRacers

\* a transaction between the load of its accounts and its end
Running == {"loaded", "validated", "transferred", "recorded"}

writable_accounts(tx) ==
    CASE tx.op = "claim_rewards" ->
            {<<"reward_pool", tx.pool_id, 0>>,
             <<"user_claim", tx.pool_id, tx.user>>,
             <<"reward_vault", tx.pool_id, 0>>,
             <<"user", tx.user, 0>>}
      [] tx.op = "vote_on_question" ->
            {<<"question", tx.question, 0>>,
             <<"voter_reputation", tx.user, 0>>,
             <<"voter", tx.user, 0>>}

\* A variant of accounts_unlocked that runs a transaction at once
accounts_unlocked_any(t) == TRUE
\* no running transaction writes an account that transaction t writes
accounts_unlocked(t) ==
    \A o \in DOMAIN inflight \ {t} :
        inflight[o].pc \in Running =>
            writable_accounts(inflight[o]) \cap writable_accounts(inflight[t]) = {}

\* claim_rewards, step 1: the runtime loads reward_pool and user_claim
ClaimLoad ==
    \E t \in DOMAIN inflight :
        LET tx == inflight[t] IN
        /\ tx.op = "claim_rewards" /\ tx.pc = "issued"
        /\ accounts_unlocked(t)
        /\ inflight' = [inflight EXCEPT ![t] =
              [tx EXCEPT !.pc = "loaded",
                         !.reward_pool = pools[tx.pool_id],
                         !.user_claim = claims[<<tx.pool_id, tx.user>>],
                         !.expected = claim_rewards(tx.user, tx.pool_id)]]
        /\ UNCHANGED <<pools, claims, vault, wallet, now, overflow_checks,
                       question_bank, questions, reputations,
                       tournament_manager, tournaments, registrations, token_accounts>>

\* claim_rewards, step 2: the checks up to InsufficientPoolFunds
ClaimValidate ==
    \E t \in DOMAIN inflight :
        LET tx == inflight[t]
            reward_pool == tx.reward_pool
            user_claim == tx.user_claim
            diff == user_claim.total_eligible - user_claim.amount_claimed
            claimable_amount == Wrap(diff)
            needed == reward_pool.distributed_rewards + claimable_amount
            err ==
                IF ~pool_is_active(reward_pool) THEN "PoolNotActive"
                ELSE IF ~period_started(now, reward_pool) THEN "ClaimPeriodNotStarted"
                ELSE IF ~(now <= reward_pool.end_time) THEN "ClaimPeriodEnded"
                ELSE IF ~InU64(diff) /\ overflow_checks THEN "Panic"
                ELSE IF ~(claimable_amount > 0) THEN "NothingToClaim"
                ELSE IF ~InU64(needed) /\ overflow_checks THEN "Panic"
                ELSE IF ~(reward_pool.total_rewards >= Wrap(needed))
                THEN "InsufficientPoolFunds"
                ELSE "Ok"
        IN
        /\ tx.op = "claim_rewards" /\ tx.pc = "loaded"
        /\ inflight' = [inflight EXCEPT ![t] =
              IF err = "Ok"
              THEN [tx EXCEPT !.pc = "validated", !.claimable = claimable_amount]
              ELSE [tx EXCEPT !.pc = "failed", !.err = err]]
        /\ UNCHANGED <<pools, claims, vault, wallet, now, overflow_checks,
                       question_bank, questions, reputations,
                       tournament_manager, tournaments, registrations, token_accounts>>

\* claim_rewards, step 3: the transfer out of the vault
ClaimTransfer ==
    \E t \in DOMAIN inflight :
        LET tx == inflight[t]
            asset == tx.reward_pool.reward_type
        IN
        /\ tx.op = "claim_rewards" /\ tx.pc = "validated"
        /\ IF asset = "NFT"
           THEN /\ inflight' = [inflight EXCEPT ![t] =
                       [tx EXCEPT !.pc = "failed", !.err = "NFTClaimUnsupported"]]
                /\ UNCHANGED <<vault, wallet,
                               tournament_manager, tournaments, registrations, token_accounts>>
           ELSE IF ~CanTransfer(vault[tx.pool_id], tx.claimable)
           THEN /\ inflight' = [inflight EXCEPT ![t] =
                       [tx EXCEPT !.pc = "failed", !.err = "InsufficientFunds"]]
                /\ UNCHANGED <<vault, wallet,
                               tournament_manager, tournaments, registrations, token_accounts>>
           ELSE /\ inflight' = [inflight EXCEPT ![t].pc = "transferred"]
                /\ vault' = [vault EXCEPT ![tx.pool_id] = @ - tx.claimable]
                /\ wallet' = Credit(wallet, tx.user, asset, tx.claimable)
        /\ UNCHANGED <<pools, claims, now, overflow_checks,
                       question_bank, questions, reputations,
                       tournament_manager, tournaments, registrations, token_accounts>>

\* claim_rewards, step 4: the records are updated in the handler's copies
\* and the runtime stores the copies
ClaimWrite ==
    \E t \in DOMAIN inflight :
        LET tx == inflight[t]
            key == <<tx.pool_id, tx.user>>
            new_claimed == tx.user_claim.amount_claimed + tx.claimable
            new_distributed == tx.reward_pool.distributed_rewards + tx.claimable
        IN
        /\ tx.op = "claim_rewards" /\ tx.pc = "transferred"
        /\ inflight' = [inflight EXCEPT ![t].pc = "done", ![t].err = "Ok"]
        /\ claims' = [claims EXCEPT
                         ![key] = record_claim(tx.user_claim, Wrap(new_claimed))]
        /\ pools' = [pools EXCEPT ![tx.pool_id] =
                        [tx.reward_pool EXCEPT
                            !.distributed_rewards = Wrap(new_distributed)]]
        /\ UNCHANGED <<vault, wallet, now, overflow_checks,
                       question_bank, questions, reputations,
                       tournament_manager, tournaments, registrations, token_accounts>>

ClaimRaceNext ==
    \/ ClaimLoad
    \/ ClaimValidate
    \/ ClaimTransfer
    \/ ClaimWrite

\* the states of the pool and of the claim record the racing claims start
\* from: a funded pool before and after the user's claim, a pool without
\* funds, and a record whose eligibility was lowered after the claim
RacePreStates ==
    {[total_rewards |-> 500, criteria |-> "EqualShare", funded |-> 500,
      eligible |-> 5, claimed |-> 0],
     [total_rewards |-> 500, criteria |-> "EqualShare", funded |-> 500,
      eligible |-> 5, claimed |-> 5],
     [total_rewards |-> 500, criteria |-> "EqualShare", funded |-> 0,
      eligible |-> 5, claimed |-> 0],
     [total_rewards |-> 1000, criteria |-> "AchievementBased", funded |-> 500,
      eligible |-> 30, claimed |-> 0],
     [total_rewards |-> 1000, criteria |-> "AchievementBased", funded |-> 500,
      eligible |-> 0, claimed |-> 30]}

\* pool 1 of authority 1 in its claim window, user 2 with a claim record,
\* and NumRacers claim_rewards requests of user 2 issued against that state
InitClaimRace ==
    /\ \E s \in RacePreStates :
          /\ pools = <<[id |-> 1, authority |-> 1,
                        total_rewards |-> s.total_rewards,
                        distributed_rewards |-> s.claimed, reward_type |-> "SOL",
                        token_mint |-> TRUE, distribution_criteria |-> s.criteria,
                        start_time |-> 1, end_time |-> 2, active |-> TRUE]>>
          /\ claims = <<1, 2>> :> [amount_claimed |-> s.claimed,
                                   last_claim_time |-> IF s.claimed > 0 THEN 1 ELSE 0,
                                   total_eligible |-> s.eligible]
          /\ vault = <<s.funded - s.claimed>>
          /\ wallet = [u \in Users |-> [a \in {"SOL", "SplToken"} |->
                          IF a = "SOL" /\ u = 1 THEN InitialBalance - s.funded
                          ELSE IF a = "SOL" /\ u = 2 THEN InitialBalance + s.claimed
                          ELSE InitialBalance]]
          /\ tournament_manager = [initialized |-> FALSE]
          /\ tournaments = <<>>
          /\ registrations = <<>>
          /\ token_accounts = <<>>
          /\ inflight = [t \in Racers |->
                [op |-> "claim_rewards", user |-> 2, pool_id |-> 1,
                 pc |-> "issued", err |-> "", claimable |-> 0,
                 reward_pool |-> <<>>, user_claim |-> <<>>, expected |-> <<>>,
                 pre_claimable |-> Max(0, s.eligible - s.claimed),
                 pre_vault |-> s.funded - s.claimed,
                 pre_wallet |-> InitialBalance + s.claimed]]
    /\ now = 1
    /\ overflow_checks \in BOOLEAN
    /\ question_bank = [initialized |-> FALSE]
    /\ questions = <<>>
    /\ reputations = <<>>

SpecClaimRace == InitClaimRace /\ [][ClaimRaceNext]_vars

Finished == {"done", "failed"}

\* whatever the interleaving, the user has received at most what was
\* claimable when the requests were issued and the vault has lost no more;
\* when all requests have ended at most one has paid, and then every other
\* one ended with NothingToClaim
PaidAtMostOnce ==
    \A t \in DOMAIN inflight :
        LET tx == inflight[t] IN
        /\ wallet[tx.user]["SOL"] - tx.pre_wallet <= tx.pre_claimable
        /\ tx.pre_vault - vault[tx.pool_id] <= tx.pre_claimable
        /\ tx.pre_vault - vault[tx.pool_id] = wallet[tx.user]["SOL"] - tx.pre_wallet
        /\ (\A o \in DOMAIN inflight : inflight[o].pc \in Finished) =>
              /\ Cardinality({o \in DOMAIN inflight : inflight[o].pc = "done"}) <= 1
              /\ tx.pc = "done" =>
                    \A o \in DOMAIN inflight \ {t} :
                        inflight[o].err = "NothingToClaim"

\* a request that ends has had the effect of claim_rewards run as one
\* transaction on the state the request was loaded from
EndsAsOneTransaction ==
    \A t \in DOMAIN inflight :
        (inflight[t].pc \in Running /\ inflight'[t].pc \in Finished) =>
            LET r == inflight[t].expected IN
            /\ inflight'[t].err = r.err
            /\ pools' = r.pools /\ claims' = r.claims
            /\ vault' = r.vault /\ wallet' = r.wallet

\* C35: two claim_rewards requests for the same pool and user issued
\* against the same state pay the user at most total_eligible -
\* amount_claimed of that state in total, in every interleaving of their
\* steps: they are serialized, the later one sees the updated
\* amount_claimed and fails with NothingToClaim, and the vault is never
\* debited twice
C35_RacingClaimsPayOnce ==
    [](PaidAtMostOnce) /\ [][EndsAsOneTransaction]_vars

\* one request has paid the claimable amount and the other has ended with
\* NothingToClaim
C35_Witness ==
    \E t \in DOMAIN inflight, o \in DOMAIN inflight :
        /\ inflight[t].op = "claim_rewards"
        /\ inflight[t].pc = "done"
        /\ inflight[t].pre_claimable > 0
        /\ wallet[inflight[t].user]["SOL"] - inflight[t].pre_wallet
               = inflight[t].pre_claimable
        /\ inflight[o].pc = "failed"
        /\ inflight[o].err = "NothingToClaim"

----------------------------------------------------------------------------
\* racing vote_on_question requests on one Pending question

\* vote_on_question, step 1: the runtime loads question and user_reputation
VoteLoad ==
    \E t \in DOMAIN inflight :
        LET tx == inflight[t] IN
        /\ tx.op = "vote_on_question" /\ tx.pc = "issued"
        /\ accounts_unlocked(t)
        /\ inflight' = [inflight EXCEPT ![t] =
              [tx EXCEPT !.pc = "loaded",
                         !.question_copy = Question(tx.question),
                         !.user_reputation = reputations[tx.user],
                         !.expected =
                             vote_on_question(tx.user, tx.question, tx.vote_type)]]
        /\ UNCHANGED <<pools, claims, vault, wallet, now, overflow_checks,
                       question_bank, questions, reputations,
                       tournament_manager, tournaments, registrations, token_accounts>>

\* vote_on_question, step 2: the three checks
VoteValidate ==
    \E t \in DOMAIN inflight :
        LET tx == inflight[t]
            question == tx.question_copy
            err ==
                IF ~is_pending(question) THEN "QuestionNotPending"
                ELSE IF ~is_not_submitter(question, tx.user)
                THEN "CannotVoteOnOwnQuestion"
                ELSE IF ~has_not_voted(question, tx.user) THEN "AlreadyVoted"
                ELSE "Ok"
        IN
        /\ tx.op = "vote_on_question" /\ tx.pc = "loaded"
        /\ inflight' = [inflight EXCEPT ![t] =
              IF err = "Ok" THEN [tx EXCEPT !.pc = "validated"]
              ELSE [tx EXCEPT !.pc = "failed", !.err = err]]
        /\ UNCHANGED <<pools, claims, vault, wallet, now, overflow_checks,
                       question_bank, questions, reputations,
                       tournament_manager, tournaments, registrations, token_accounts>>

\* vote_on_question, step 3: the vote and the reputation are recorded in
\* the handler's copies
VoteRecord ==
    \E t \in DOMAIN inflight :
        LET tx == inflight[t] IN
        /\ tx.op = "vote_on_question" /\ tx.pc = "validated"
        /\ inflight' = [inflight EXCEPT ![t] =
              [tx EXCEPT !.pc = "recorded",
                         !.question_copy = record_vote(@, tx.user, tx.vote_type),
                         !.user_reputation =
                             [@ EXCEPT !.curation_votes = @ + 1,
                                       !.reputation_score = @ + 10]]]
        /\ UNCHANGED <<pools, claims, vault, wallet, now, overflow_checks,
                       question_bank, questions, reputations,
                       tournament_manager, tournaments, registrations, token_accounts>>

\* vote_on_question, step 4: the handler returns and the runtime stores the
\* copies
VoteStore ==
    \E t \in DOMAIN inflight :
        LET tx == inflight[t] IN
        /\ tx.op = "vote_on_question" /\ tx.pc = "recorded"
        /\ IF Question_size(tx.question_copy) > Question_SPACE
           THEN /\ inflight' = [inflight EXCEPT ![t].pc = "failed",
                                                ![t].err = "AccountDidNotSerialize"]
                /\ UNCHANGED <<questions, reputations,
                               tournament_manager, tournaments, registrations, token_accounts>>
           ELSE /\ inflight' = [inflight EXCEPT ![t].pc = "done", ![t].err = "Ok"]
                /\ questions' = [questions EXCEPT
                                    ![tx.question + 1] = tx.question_copy]
                /\ reputations' = [reputations EXCEPT
                                      ![tx.user] = tx.user_reputation]
        /\ UNCHANGED <<pools, claims, vault, wallet, now, overflow_checks,
                       question_bank,
                       tournament_manager, tournaments, registrations, token_accounts>>

VoteRaceNext ==
    \/ VoteLoad
    \/ VoteValidate
    \/ VoteRecord
    \/ VoteStore

\* the identities whose votes race, and the one who may have voted before
RacingVoters == {2, 3}
EarlierVoter == 4

\* question 0 of submitter 1, Pending, with or without an earlier vote, and
\* NumRacers vote_on_question requests on it by the same or by different
\* registered identities
InitVoteRace ==
    /\ \E earlier \in BOOLEAN,
          us \in [Racers -> RacingVoters], ts \in [Racers -> VoteTypes] :
          LET voted == IF earlier THEN 1 ELSE 0
              member == [questions_submitted |-> 0, questions_approved |-> 0,
                         curation_votes |-> 0, reputation_score |-> 100]
          IN
          /\ questions =
                <<[id |-> 0, submitter |-> 1, question_text_len |-> 500,
                   option_len |-> 100, category_len |-> 50, difficulty |-> 1,
                   votes_approve |-> voted, votes_reject |-> 0,
                   voters |-> IF earlier THEN SetToBag({EarlierVoter})
                              ELSE EmptyBag,
                   status |-> "Pending"]>>
          /\ reputations =
                [u \in 1..EarlierVoter |->
                    IF u = 1 THEN [member EXCEPT !.questions_submitted = 1]
                    ELSE IF u = EarlierVoter /\ earlier
                    THEN [member EXCEPT !.curation_votes = 1,
                                        !.reputation_score = 110]
                    ELSE member]
          /\ tournament_manager = [initialized |-> FALSE]
          /\ tournaments = <<>>
          /\ registrations = <<>>
          /\ token_accounts = <<>>
          /\ inflight = [t \in Racers |->
                [op |-> "vote_on_question", user |-> us[t], question |-> 0,
                 vote_type |-> ts[t], pc |-> "issued", err |-> "",
                 question_copy |-> <<>>, user_reputation |-> <<>>,
                 expected |-> <<>>,
                 pre_approve |-> voted, pre_reject |-> 0,
                 pre_voters |-> voted]]
    /\ question_bank = [initialized |-> TRUE, authority |-> 1,
                        total_questions |-> 1, active_questions |-> 0,
                        curators |-> SetToBag({1})]
    /\ pools = <<>>
    /\ claims = <<>>
    /\ vault = <<>>
    /\ wallet = [u \in Users |-> [a \in {"SOL", "SplToken"} |-> InitialBalance]]
    /\ now = 0
    /\ overflow_checks = TRUE

SpecVoteRace == InitVoteRace /\ [][VoteRaceNext]_vars

\* the requests that have been reported successful, by vote type or by voter
Counted(vote_type) ==
    {t \in DOMAIN inflight :
        inflight[t].pc = "done" /\ inflight[t].vote_type = vote_type}
CountedOf(voter) ==
    {t \in DOMAIN inflight : inflight[t].pc = "done" /\ inflight[t].user = voter}

\* every vote reported successful is in voters and in its counter, an
\* identity is counted once, and the counters add up to the voters
VotesKept ==
    \A t \in DOMAIN inflight :
        LET tx == inflight[t]
            question == Question(tx.question)
        IN
        /\ question.votes_approve = tx.pre_approve + Cardinality(Counted("Approve"))
        /\ question.votes_reject = tx.pre_reject + Cardinality(Counted("Reject"))
        /\ VecLen(question.voters)
               = tx.pre_voters + Cardinality(Counted("Approve") \cup Counted("Reject"))
        /\ question.votes_approve + question.votes_reject = VecLen(question.voters)
        /\ tx.pc = "done" => CopiesIn(tx.user, question.voters) = 1
        /\ Cardinality(CountedOf(tx.user)) <= 1
        /\ reputations[tx.user].curation_votes = Cardinality(CountedOf(tx.user))
        /\ (tx.pc = "failed" /\ CountedOf(tx.user) # {}) => tx.err = "AlreadyVoted"

\* a request that ends has had the effect of vote_on_question run as one
\* transaction on the state the request was loaded from
VoteEndsAsOneTransaction ==
    \A t \in DOMAIN inflight :
        (inflight[t].pc \in Running /\ inflight'[t].pc \in Finished) =>
            LET r == inflight[t].expected IN
            /\ inflight'[t].err = r.err
            /\ question_bank' = r.question_bank /\ questions' = r.questions
            /\ reputations' = r.reputations

\* C36: in every interleaving of racing vote_on_question requests on one
\* Pending question a vote reported successful is in voters and in its
\* counter, two votes of one identity are counted once, and
\* votes_approve + votes_reject = |voters|
C36_RacingVotesKept ==
    [](VotesKept) /\ [][VoteEndsAsOneTransaction]_vars

\* the racing votes of two different identities have both been counted
C36_Witness ==
    \E t \in DOMAIN inflight, o \in DOMAIN inflight :
        /\ inflight[t].op = "vote_on_question"
        /\ inflight[t].user # inflight[o].user
        /\ inflight[t].pc = "done" /\ inflight[o].pc = "done"
        /\ Contains(Question(0).voters, inflight[t].user)
        /\ Contains(Question(0).voters, inflight[o].user)
        /\ VecLen(Question(0).voters) = inflight[t].pre_voters + 2

----------------------------------------------------------------------------
\* C37: for every SOL or SplToken pool that has not been closed the vault
\* holds total_rewards - distributed_rewards: total_rewards counts only what
\* was transferred into the vault and distributed_rewards only what
\* claim_rewards transferred out
C37_VaultConservation ==
    \A p \in DOMAIN pools :
        (pools[p].reward_type # "NFT" /\ pools[p].active) =>
            vault[p] = pools[p].total_rewards - pools[p].distributed_rewards

\* what does hold: the vault changes by what is funded and claimed, so the
\* gap between total_rewards - distributed_rewards and the vault stays what
\* create_reward_pool made it, as long as total_rewards does not wrap
GapKept ==
    \A p \in DOMAIN pools :
        (pools[p].reward_type # "NFT" /\ pools[p].active /\ pools'[p].active
            /\ pools'[p].total_rewards >= pools[p].total_rewards) =>
            pools'[p].total_rewards - pools'[p].distributed_rewards - vault'[p]
                = pools[p].total_rewards - pools[p].distributed_rewards - vault[p]

C37_GapKept == [][GapKept]_vars

----------------------------------------------------------------------------
\* pools whose creator transfers in as much as, or more than, the
\* total_rewards of the request, used up to their closing
OverfundedCreate ==
    \E a \in Authorities, pd \in ValidPoolData,
       f \in {FundingUnit, 2 * FundingUnit} :
        LET r == create_reward_pool(a, pd, f) IN
        /\ pd.total_rewards = FundingUnit
        /\ r.err = "Ok"
        /\ pools' = r.pools /\ claims' = r.claims
        /\ vault' = r.vault /\ wallet' = r.wallet
        /\ UNCHANGED <<now, overflow_checks, question_bank, questions, reputations,
                       inflight,
                       tournament_manager, tournaments, registrations, token_accounts>>

CloseNext ==
    \/ OverfundedCreate
    \/ CalculateUserRewards
    \/ ClaimRewards
    \/ CloseRewardPool
    \/ Tick

InitClose ==
    /\ pools = <<>>
    /\ claims = <<>>
    /\ vault = <<>>
    /\ wallet = [u \in Users |-> [a \in {"SOL", "SplToken"} |-> InitialBalance]]
    /\ now = 0
    /\ overflow_checks \in BOOLEAN
    /\ question_bank = [initialized |-> FALSE]
    /\ questions = <<>>
    /\ reputations = <<>>
    /\ tournament_manager = [initialized |-> FALSE]
    /\ tournaments = <<>>
    /\ registrations = <<>>
    /\ token_accounts = <<>>
    /\ inflight = <<>>

SpecClose == InitClose /\ [][CloseNext]_vars

\* C38: after close_reward_pool has succeeded on a pool, a further
\* close_reward_pool on it transfers nothing out of the vault
C38_ClosedOnce ==
    \A p \in ClosedPools, u \in Users :
        LET r == close_reward_pool(u, p) IN
        r.vault[p] = vault[p] /\ r.wallet = wallet

----------------------------------------------------------------------------
\* tournament_manager: data

\* participants are the identities 1..NumParticipants
NumParticipants == 3
\* at most MaxTournaments tournaments are created
MaxTournaments == 1

Participants == 1..NumParticipants
\* token accounts of the entry-fee mint: account p belongs to participant p,
\* account VaultAccount belongs to none of them
VaultAccount == 0
TokenAccounts == {VaultAccount} \cup Participants
TokenOwner(a) == a

\* i64 arithmetic has the width of the u64 word, two's complement
I64_MAX == (U64_MOD \div 2) - 1
I64_MIN == 0 - (U64_MOD \div 2)
InI64(x) == x >= I64_MIN /\ x <= I64_MAX
WrapI64(x) == ((x - I64_MIN) % U64_MOD) + I64_MIN

\* Option<T>: None is <<>>, Some(v) is <<v>>
None == <<>>
Some(v) == <<v>>
unwrap(o) == o[1]

\* impl Tournament { pub const SPACE }
Tournament_SPACE == 8 + 32 + 100 + 500 + 8 + 8 + 4 + 4 + 8 + 8 + 1 + 51 + 2 + 1 + 8 + 9 + 9 + 1
\* Borsh size of a Tournament: a String is 4 + len bytes, an Option is
\* 1 byte and the value when it is Some
Tournament_size(t) ==
    8 + 32 + (4 + t.name_len) + (4 + t.description_len) + 8 + 8 + 4 + 4 + 8 + 8 + 1
    + (1 + (IF t.category_len = None THEN 0 ELSE 4 + unwrap(t.category_len)))
    + (1 + Len(t.difficulty))
    + 1 + 8
    + (1 + 8 * Len(t.actual_start_time))
    + (1 + 8 * Len(t.ended_at))
    + 1

\* The outcome of one tournament_manager transaction
TmOutcome(e, m, ts, rs, tas) ==
    [err |-> e, tournament_manager |-> m, tournaments |-> ts,
     registrations |-> rs, token_accounts |-> tas]
\* A failed transaction persists nothing
TmFail(e) == TmOutcome(e, tournament_manager, tournaments, registrations, token_accounts)

\* Tournament ids in use; tournaments[id + 1] is the account of id
TournamentIds == {i - 1 : i \in DOMAIN tournaments}
TournamentOf(id) == tournaments[id + 1]

\* Account<'info, Tournament> written back when the instruction exits
tournament_exit(id, t, rs, tas) ==
    IF Tournament_size(t) > Tournament_SPACE
    THEN TmFail("AccountDidNotSerialize")
    ELSE TmOutcome("Ok", tournament_manager,
                   [tournaments EXCEPT ![id + 1] = t], rs, tas)

----------------------------------------------------------------------------
\* tournament_manager: instruction handlers

initialize(authority) ==
    IF tournament_manager.initialized
    THEN TmFail("AccountAlreadyInUse")
    ELSE TmOutcome("Ok",
                   [initialized |-> TRUE, authority |-> authority,
                    tournament_count |-> 0, total_participants |-> 0],
                   tournaments, registrations, token_accounts)

create_tournament(organizer, d) ==
    IF ~tournament_manager.initialized THEN TmFail("AccountNotInitialized")
    ELSE IF ~(d.name_len <= 100) THEN TmFail("NameTooLong")
    ELSE IF ~(d.description_len <= 500) THEN TmFail("DescriptionTooLong")
    ELSE IF ~(d.max_participants > 0) THEN TmFail("InvalidMaxParticipants")
    ELSE IF ~(d.start_time > now) THEN TmFail("InvalidStartTime")
    ELSE IF ~(d.duration > 0) THEN TmFail("InvalidDuration")
    ELSE IF ~(d.question_count >= 5 /\ d.question_count <= 50)
    THEN TmFail("InvalidQuestionCount")
    ELSE
        LET t == [id |-> tournament_manager.tournament_count,
                  organizer |-> organizer,
                  name_len |-> d.name_len,
                  description_len |-> d.description_len,
                  entry_fee |-> d.entry_fee,
                  prize_pool |-> d.prize_pool,
                  max_participants |-> d.max_participants,
                  current_participants |-> 0,
                  start_time |-> d.start_time,
                  duration |-> d.duration,
                  question_count |-> d.question_count,
                  category_len |-> d.category_len,
                  difficulty |-> d.difficulty,
                  status |-> "Registration",
                  created_at |-> now,
                  actual_start_time |-> None,
                  ended_at |-> None]
        IN  IF Tournament_size(t) > Tournament_SPACE
            THEN TmFail("AccountDidNotSerialize")
            ELSE TmOutcome("Ok",
                           [tournament_manager EXCEPT !.tournament_count = @ + 1],
                           Append(tournaments, t), registrations, token_accounts)

\* #[account(init, seeds = [b"registration", tournament, participant])]
registration_is_new(id, participant) ==
    <<id, participant>> \notin DOMAIN registrations

\* tournament.prize_pool += tournament.entry_fee, when it does not panic
add_entry_fee(prize_pool, entry_fee) == Wrap(prize_pool + entry_fee)

\* the three require! of register_for_tournament
registration_open(t) ==
    IF t.status # "Registration" THEN "RegistrationClosed"
    ELSE IF ~(t.current_participants < t.max_participants) THEN "TournamentFull"
    ELSE IF ~(now < t.start_time) THEN "TournamentStarted"
    ELSE "Ok"

\* token::transfer(from, to, authority, amount)
token_transfer(tas, from, to, authority, amount) ==
    IF TokenOwner(from) # authority THEN [err |-> "OwnerMismatch", token_accounts |-> tas]
    ELSE IF tas[from] < amount THEN [err |-> "InsufficientFunds", token_accounts |-> tas]
    ELSE IF from = to THEN [err |-> "Ok", token_accounts |-> tas]
    ELSE [err |-> "Ok",
          token_accounts |-> [tas EXCEPT ![from] = @ - amount, ![to] = @ + amount]]

register_for_tournament(participant, id, from, to) ==
    IF id \notin TournamentIds THEN TmFail("AccountNotInitialized")
    ELSE IF ~registration_is_new(id, participant) THEN TmFail("AccountAlreadyInUse")
    ELSE
        LET t == TournamentOf(id)
            paid == IF t.entry_fee > 0
                    THEN token_transfer(token_accounts, from, to, participant, t.entry_fee)
                    ELSE [err |-> "Ok", token_accounts |-> token_accounts]
            registration == [participant |-> participant,
                             tournament_id |-> t.id,
                             registered_at |-> now,
                             score |-> 0,
                             completed |-> FALSE,
                             submission_time |-> None]
            written == [t EXCEPT !.current_participants = @ + 1,
                                 !.prize_pool = add_entry_fee(@, t.entry_fee)]
        IN  IF registration_open(t) # "Ok" THEN TmFail(registration_open(t))
            ELSE IF paid.err # "Ok" THEN TmFail(paid.err)
            ELSE IF ~InU64(t.prize_pool + t.entry_fee) /\ overflow_checks
            THEN TmFail("Panic")
            ELSE tournament_exit(id, written,
                                 [k \in DOMAIN registrations \cup {<<id, participant>>} |->
                                     IF k = <<id, participant>> THEN registration
                                     ELSE registrations[k]],
                                 paid.token_accounts)

\* the three require! of start_tournament
ready_to_start(t) ==
    IF t.status # "Registration" THEN "InvalidStatus"
    ELSE IF ~(now >= t.start_time) THEN "TournamentNotReady"
    ELSE IF ~(t.current_participants >= 2) THEN "InsufficientParticipants"
    ELSE "Ok"

start_tournament(organizer, id) ==
    IF id \notin TournamentIds THEN TmFail("AccountNotInitialized")
    ELSE
        LET t == TournamentOf(id) IN
        IF t.organizer # organizer THEN TmFail("ConstraintHasOne")
        ELSE IF ready_to_start(t) # "Ok" THEN TmFail(ready_to_start(t))
        ELSE tournament_exit(id,
                             [t EXCEPT !.status = "Active",
                                       !.actual_start_time = Some(now)],
                             registrations, token_accounts)

\* tournament.actual_start_time.unwrap() + tournament.duration, when it does
\* not panic
tournament_end_time(t) == WrapI64(unwrap(t.actual_start_time) + t.duration)
end_time_overflows(t) == ~InI64(unwrap(t.actual_start_time) + t.duration)

\* for (i, answer) in answers.iter().enumerate(): if i % 10 < 7 { score += 10 }
answers_score(answers_len) ==
    10 * Cardinality({i \in 0..(answers_len - 1) : i % 10 < 7})

\* require!(!registration.completed, AlreadySubmitted)
not_submitted(registration) == ~registration.completed

submit_answers(participant, id, answers_len) ==
    IF id \notin TournamentIds THEN TmFail("AccountNotInitialized")
    ELSE IF <<id, participant>> \notin DOMAIN registrations
    THEN TmFail("AccountNotInitialized")
    ELSE
        LET t == TournamentOf(id)
            registration == registrations[<<id, participant>>]
        IN  IF t.status # "Active" THEN TmFail("TournamentNotActive")
            ELSE IF ~not_submitted(registration) THEN TmFail("AlreadySubmitted")
            ELSE IF answers_len # t.question_count THEN TmFail("InvalidAnswerCount")
            ELSE IF end_time_overflows(t) /\ overflow_checks THEN TmFail("Panic")
            ELSE IF ~(now <= tournament_end_time(t)) THEN TmFail("TournamentEnded")
            ELSE TmOutcome("Ok", tournament_manager, tournaments,
                           [registrations EXCEPT ![<<id, participant>>] =
                               [@ EXCEPT !.score = answers_score(answers_len),
                                         !.completed = TRUE,
                                         !.submission_time = Some(now)]],
                           token_accounts)

end_tournament(organizer, id) ==
    IF id \notin TournamentIds THEN TmFail("AccountNotInitialized")
    ELSE
        LET t == TournamentOf(id) IN
        IF t.organizer # organizer THEN TmFail("ConstraintHasOne")
        ELSE IF t.status # "Active" THEN TmFail("TournamentNotActive")
        ELSE IF end_time_overflows(t) /\ overflow_checks THEN TmFail("Panic")
        ELSE IF ~(now >= tournament_end_time(t)) THEN TmFail("TournamentNotEnded")
        ELSE tournament_exit(id,
                             [t EXCEPT !.status = "Ended", !.ended_at = Some(now)],
                             registrations, token_accounts)

----------------------------------------------------------------------------
\* tournament_manager: the transactions that are issued

\* create_tournament arguments: tournaments that differ in fee, prize pool
\* and size, and tournaments that differ in schedule, length and text
TournamentInputs ==
    [name_len : {100}, description_len : {500},
     entry_fee : {0, FundingUnit}, prize_pool : {0, U64_MAX},
     max_participants : {2, NumParticipants},
     start_time : {1}, duration : {1}, question_count : {5},
     category_len : {None}, difficulty : {Some(1)}]
    \cup
    [name_len : {100}, description_len : {500},
     entry_fee : {0}, prize_pool : {0},
     max_participants : {2},
     start_time : {1, 2}, duration : {1, I64_MAX}, question_count : {5, 50},
     category_len : {None, Some(39)}, difficulty : {Some(1)}]
AnswerCounts == {5, 50}

Initialize ==
    \E a \in Users :
        LET r == initialize(a) IN
        /\ r.err = "Ok"
        /\ tournament_manager' = r.tournament_manager
        /\ tournaments' = r.tournaments
        /\ registrations' = r.registrations
        /\ token_accounts' = r.token_accounts
        /\ UNCHANGED <<pools, claims, vault, wallet, now, overflow_checks,
                       question_bank, questions, reputations, inflight>>

CreateTournament ==
    \E o \in Users, d \in TournamentInputs :
        LET r == create_tournament(o, d) IN
        /\ Len(tournaments) < MaxTournaments
        /\ r.err = "Ok"
        /\ tournament_manager' = r.tournament_manager
        /\ tournaments' = r.tournaments
        /\ registrations' = r.registrations
        /\ token_accounts' = r.token_accounts
        /\ UNCHANGED <<pools, claims, vault, wallet, now, overflow_checks,
                       question_bank, questions, reputations, inflight>>

RegisterForTournament ==
    \E p \in Participants, id \in TournamentIds, from \in TokenAccounts :
        \E to \in {VaultAccount, p} :
            LET r == register_for_tournament(p, id, from, to) IN
            /\ r.err = "Ok"
            /\ tournament_manager' = r.tournament_manager
            /\ tournaments' = r.tournaments
            /\ registrations' = r.registrations
            /\ token_accounts' = r.token_accounts
            /\ UNCHANGED <<pools, claims, vault, wallet, now, overflow_checks,
                           question_bank, questions, reputations, inflight>>

StartTournament ==
    \E o \in Users, id \in TournamentIds :
        LET r == start_tournament(o, id) IN
        /\ r.err = "Ok"
        /\ tournament_manager' = r.tournament_manager
        /\ tournaments' = r.tournaments
        /\ registrations' = r.registrations
        /\ token_accounts' = r.token_accounts
        /\ UNCHANGED <<pools, claims, vault, wallet, now, overflow_checks,
                       question_bank, questions, reputations, inflight>>

SubmitAnswers ==
    \E p \in Participants, id \in TournamentIds, n \in AnswerCounts :
        LET r == submit_answers(p, id, n) IN
        /\ r.err = "Ok"
        /\ tournament_manager' = r.tournament_manager
        /\ tournaments' = r.tournaments
        /\ registrations' = r.registrations
        /\ token_accounts' = r.token_accounts
        /\ UNCHANGED <<pools, claims, vault, wallet, now, overflow_checks,
                       question_bank, questions, reputations, inflight>>

EndTournament ==
    \E o \in Users, id \in TournamentIds :
        LET r == end_tournament(o, id) IN
        /\ r.err = "Ok"
        /\ tournament_manager' = r.tournament_manager
        /\ tournaments' = r.tournaments
        /\ registrations' = r.registrations
        /\ token_accounts' = r.token_accounts
        /\ UNCHANGED <<pools, claims, vault, wallet, now, overflow_checks,
                       question_bank, questions, reputations, inflight>>

TmNext ==
    \/ Initialize
    \/ CreateTournament
    \/ RegisterForTournament
    \/ StartTournament
    \/ SubmitAnswers
    \/ EndTournament
    \/ Tick

InitTM ==
    /\ pools = <<>>
    /\ claims = <<>>
    /\ vault = <<>>
    /\ wallet = [u \in Users |-> [a \in {"SOL", "SplToken"} |-> InitialBalance]]
    /\ now = 0
    /\ overflow_checks \in BOOLEAN
    /\ question_bank = [initialized |-> FALSE]
    /\ questions = <<>>
    /\ reputations = <<>>
    /\ inflight = <<>>
    /\ tournament_manager = [initialized |-> FALSE]
    /\ tournaments = <<>>
    /\ registrations = <<>>
    /\ token_accounts = [a \in TokenAccounts |->
                            IF a = VaultAccount THEN 0 ELSE InitialBalance]

SpecTM == InitTM /\ [][TmNext]_vars

----------------------------------------------------------------------------
\* tournament_manager: registration

RegistrationsOf(id) == {k \in DOMAIN registrations : k[1] = id}

\* current_participants is the number of Registration accounts of the
\* tournament and is at most max_participants
ParticipantsCounted ==
    \A id \in TournamentIds :
        /\ TournamentOf(id).current_participants = Cardinality(RegistrationsOf(id))
        /\ TournamentOf(id).current_participants <= TournamentOf(id).max_participants

\* a Registration account appears only while the tournament takes
\* registrations, before start_time, and while it is not full
RegisteredWhileOpen ==
    \A k \in (DOMAIN registrations') \ (DOMAIN registrations) :
        /\ k[1] \in TournamentIds
        /\ TournamentOf(k[1]).status = "Registration"
        /\ now < TournamentOf(k[1]).start_time
        /\ TournamentOf(k[1]).current_participants < TournamentOf(k[1]).max_participants

\* what the prize pool held when the tournament was created, were every
\* registration to have added entry_fee to it
PrizePoolAtCreation(t) == t.prize_pool - t.entry_fee * t.current_participants

\* prize_pool is its creation value plus entry_fee for every participant
PrizePoolFollows ==
    \A id \in TournamentIds :
        /\ TournamentOf(id)'.entry_fee = TournamentOf(id).entry_fee
        /\ PrizePoolAtCreation(TournamentOf(id)') = PrizePoolAtCreation(TournamentOf(id))

\* C39: current_participants equals the number of Registration accounts of
\* the tournament and never exceeds max_participants; a registration
\* succeeds only while status is Registration, now < start_time and the
\* tournament is not full, once per participant; prize_pool is always its
\* creation value plus entry_fee * current_participants
C39_RegistrationAccounting ==
    [](ParticipantsCounted) /\ [][RegisteredWhileOpen /\ PrizePoolFollows]_vars

\* the counting and the guards of C39, without the prize pool
C39_CountedAndGuarded ==
    [](ParticipantsCounted) /\ [][RegisteredWhileOpen]_vars

\* the prize pool of C39 for registrations whose sum fits the u64 word
C39_PrizePoolFollowsInRange ==
    [][\A id \in TournamentIds :
          InU64(TournamentOf(id).prize_pool + TournamentOf(id).entry_fee)
              => PrizePoolAtCreation(TournamentOf(id)') = PrizePoolAtCreation(TournamentOf(id))]_vars

----------------------------------------------------------------------------
\* tournament_manager: life cycle

\* the end of play, actual_start_time + duration, as a number
EndOfPlay(t) == unwrap(t.actual_start_time) + t.duration

\* status is never Cancelled
NeverCancelled ==
    \A id \in TournamentIds : TournamentOf(id).status \in {"Registration", "Active", "Ended"}

\* status changes only from Registration to Active and from Active to Ended
StatusForward ==
    \A id \in TournamentIds :
        TournamentOf(id)'.status # TournamentOf(id).status =>
            \/ TournamentOf(id).status = "Registration" /\ TournamentOf(id)'.status = "Active"
            \/ TournamentOf(id).status = "Active" /\ TournamentOf(id)'.status = "Ended"

\* a tournament becomes Active only at or after start_time with at least
\* two participants
StartedWhenReady ==
    \A id \in TournamentIds :
        (TournamentOf(id).status = "Registration" /\ TournamentOf(id)'.status = "Active") =>
            /\ now >= TournamentOf(id).start_time
            /\ TournamentOf(id).current_participants >= 2

\* a tournament becomes Ended only at or after actual_start_time + duration
EndedWhenOver ==
    \A id \in TournamentIds :
        (TournamentOf(id).status = "Active" /\ TournamentOf(id)'.status = "Ended") =>
            now >= EndOfPlay(TournamentOf(id))

\* a registration becomes completed only while its tournament is Active and
\* play is not over
SubmittedDuringPlay ==
    \A k \in DOMAIN registrations :
        (~registrations[k].completed /\ registrations'[k].completed) =>
            /\ TournamentOf(k[1]).status = "Active"
            /\ now <= EndOfPlay(TournamentOf(k[1]))

\* score changes only with the one submission; afterwards score and
\* completed stay
SubmittedOnce ==
    \A k \in DOMAIN registrations :
        /\ registrations[k].completed =>
              /\ registrations'[k].completed
              /\ registrations'[k].score = registrations[k].score
              /\ registrations'[k].submission_time = registrations[k].submission_time
        /\ registrations'[k].score # registrations[k].score =>
              ~registrations[k].completed /\ registrations'[k].completed

\* C40: status only moves Registration -> Active -> Ended and is never
\* Cancelled; a start needs status Registration, now >= start_time and two
\* participants; an end needs status Active and
\* now >= actual_start_time + duration; answers are taken only while Active
\* and now <= actual_start_time + duration, once per registration, and the
\* score and the completed flag never change afterwards
C40_LifeCycle ==
    [](NeverCancelled)
    /\ [][StatusForward /\ StartedWhenReady /\ EndedWhenOver
          /\ SubmittedDuringPlay /\ SubmittedOnce]_vars

\* the life cycle of C40 without the condition on the end
C40_LifeCycleButEnd ==
    [](NeverCancelled)
    /\ [][StatusForward /\ StartedWhenReady /\ SubmittedDuringPlay /\ SubmittedOnce]_vars

\* the condition of C40 on the end, where actual_start_time + duration fits
\* the i64 word
C40_EndedWhenOverInRange ==
    [][\A id \in TournamentIds :
          (/\ TournamentOf(id).status = "Active"
           /\ TournamentOf(id)'.status = "Ended"
           /\ InI64(EndOfPlay(TournamentOf(id))))
              => now >= EndOfPlay(TournamentOf(id))]_vars

====
